---- MODULE Spec2Model ----
(***************************************************************************)
(* Sudoku Tower Defense: board, validator, completion tracker, completion  *)
(* bonuses, tower placement, player wallet, waves and the game loop.       *)
(* Strings that the code builds and splits ("row-3", "1-2", "tower_4") are *)
(* kept as sequences of their '-'-separated parts, numbers that the code   *)
(* parses out of strings go through ParseInt, and fractional quantities    *)
(* are kept as scaled integers (the scale is named at each definition).    *)
(***************************************************************************)
EXTENDS Integers, Sequences, FiniteSets, TLC

(* ------------------------------------------------------------------ *)
(* Bounds of the model                                                 *)
(* ------------------------------------------------------------------ *)
MaxTowerId == 2
(* pending frame callbacks are counted up to MaxFrames *)
MaxFrames == 3
MaxEnemyId == 6
MaxLevel == 2

(* ------------------------------------------------------------------ *)
(* Program constants                                                   *)
(* ------------------------------------------------------------------ *)
N == 9
Box == 3
CellSize == 55
PosScale == 50
StartCurrency == 150
StartLives == 3
NaN == -1
Null == "null"

Idx == 0 .. (N - 1)
Cell == Idx \X Idx
Digits == 1 .. 9

Min(a, b) == IF a < b THEN a ELSE b
Range(s) == {s[i] : i \in DOMAIN s}

(* Number -> decimal string, for the indices the code interpolates into keys *)
ToStr(n) ==
    CASE n = 0 -> "0" [] n = 1 -> "1" [] n = 2 -> "2" [] n = 3 -> "3"
      [] n = 4 -> "4" [] n = 5 -> "5" [] n = 6 -> "6" [] n = 7 -> "7"
      [] n = 8 -> "8" [] n = 9 -> "9" [] OTHER -> "NaN"

(* parseInt on the strings that occur as tower kinds and key parts *)
ParseInt(s) ==
    CASE s = "0" -> 0 [] s = "1" -> 1 [] s = "2" -> 2 [] s = "3" -> 3
      [] s = "4" -> 4 [] s = "5" -> 5 [] s = "6" -> 6 [] s = "7" -> 7
      [] s = "8" -> 8 [] s = "9" -> 9 [] OTHER -> NaN

(* ------------------------------------------------------------------ *)
(* TowerTypes: damage, range (tenths of a cell), attackSpeed (units of  *)
(* 10 microseconds), cost.  Lengths on the board are kept in units of   *)
(* 1/50 pixel (PosScale), so that one cell is 2750 units and an enemy's  *)
(* progress along a segment is the same integer as its offset.          *)
(* ------------------------------------------------------------------ *)
towerTypes ==
    [t \in {"1", "2", "3", "4", "5", "6", "7", "8", "9", "special"} |->
        CASE t = "1" -> [damage |-> 60,  range |-> 25, attackSpeed |-> 70000, cost |-> 30]
          [] t = "2" -> [damage |-> 70,  range |-> 25, attackSpeed |-> 70000, cost |-> 30]
          [] t = "3" -> [damage |-> 80,  range |-> 25, attackSpeed |-> 70000, cost |-> 30]
          [] t = "4" -> [damage |-> 90,  range |-> 25, attackSpeed |-> 70000, cost |-> 35]
          [] t = "5" -> [damage |-> 100, range |-> 25, attackSpeed |-> 70000, cost |-> 35]
          [] t = "6" -> [damage |-> 110, range |-> 25, attackSpeed |-> 70000, cost |-> 35]
          [] t = "7" -> [damage |-> 120, range |-> 25, attackSpeed |-> 70000, cost |-> 40]
          [] t = "8" -> [damage |-> 130, range |-> 25, attackSpeed |-> 70000, cost |-> 40]
          [] t = "9" -> [damage |-> 140, range |-> 30, attackSpeed |-> 70000, cost |-> 40]
          [] OTHER   -> [damage |-> 80,  range |-> 40, attackSpeed |-> 30000, cost |-> 100]]

(* null for a kind that is not in the table *)
getTowerType(type) == IF type \in DOMAIN towerTypes THEN <<towerTypes[type]>> ELSE <<>>

(* getUpgradeCost without the factor 0.75 *)
getUpgradeCostFull(type, currentLevel) ==
    IF type \notin DOMAIN towerTypes THEN 0
    ELSE towerTypes[type].cost * currentLevel

getUpgradeCost(type, currentLevel) ==
    IF type \notin DOMAIN towerTypes THEN 0
    ELSE (towerTypes[type].cost * 75 * currentLevel) \div 100

(* floor(range * 1.3) is taken in pixels *)
getUpgradedStats(tower) ==
    [damage |-> (tower.damage * 18) \div 10,
     range |-> ((tower.range * 13) \div (10 * PosScale)) * PosScale,
     attackSpeed |-> (tower.attackSpeed * 7) \div 10]

(* ------------------------------------------------------------------ *)
(* SudokuValidator                                                     *)
(* ------------------------------------------------------------------ *)
BoxCells(boxRow, boxCol) ==
    {<<boxRow + i, boxCol + j>> : i \in 0 .. (Box - 1), j \in 0 .. (Box - 1)}

(* isValidMove with the box taken at (row / 3, col / 3), not at its     *)
(* corner                                                               *)
isValidMoveBoxAtIndex(board, row, col, value) ==
    /\ \A i \in Idx : ~(i # col /\ board[<<row, i>>] = value)
    /\ \A i \in Idx : ~(i # row /\ board[<<i, col>>] = value)
    /\ \A c \in BoxCells(row \div Box, col \div Box) :
           ~((c[1] # row \/ c[2] # col) /\ board[c] = value)

(* isValidMove without its row loop *)
isValidMoveNoRow(board, row, col, value) ==
    /\ \A i \in Idx : ~(i # row /\ board[<<i, col>>] = value)
    /\ \A c \in BoxCells((row \div Box) * Box, (col \div Box) * Box) :
           ~(c # <<row, col>> /\ board[c] = value)

isValidMove(board, row, col, value) ==
    /\ \A i \in Idx : ~(i # col /\ board[<<row, i>>] = value)
    /\ \A i \in Idx : ~(i # row /\ board[<<i, col>>] = value)
    /\ LET boxRow == (row \div Box) * Box
           boxCol == (col \div Box) * Box
       IN \A c \in BoxCells(boxRow, boxCol) :
              ~((c[1] # row \/ c[2] # col) /\ board[c] = value)

getPossibleValues(board, row, col) ==
    {num \in Digits : isValidMove(board, row, col, num)}

(* usedNumbers scan of one unit: a repeated nonzero value among the      *)
(* non-path cells makes the board invalid                                *)
NoRepeat(board, pathCells, cells) ==
    \A c1, c2 \in cells \ pathCells :
        (c1 # c2 /\ board[c1] # 0) => board[c1] # board[c2]

RowCells(row) == {<<row, col>> : col \in Idx}
ColCells(col) == {<<row, col>> : row \in Idx}

(* the nine rows, the nine columns and the nine boxes *)
Units ==
    {RowCells(row) : row \in Idx} \cup {ColCells(col) : col \in Idx}
        \cup {BoxCells(boxRow * Box, boxCol * Box) :
                 boxRow \in 0 .. (Box - 1), boxCol \in 0 .. (Box - 1)}

isBoardValid(board, pathCells) ==
    /\ \A row \in Idx : NoRepeat(board, pathCells, RowCells(row))
    /\ \A col \in Idx : NoRepeat(board, pathCells, ColCells(col))
    /\ \A boxRow \in 0 .. (Box - 1), boxCol \in 0 .. (Box - 1) :
           NoRepeat(board, pathCells, BoxCells(boxRow * Box, boxCol * Box))

(* ------------------------------------------------------------------ *)
(* SudokuGenerator                                                     *)
(* ------------------------------------------------------------------ *)
difficultySettings == [easy |-> 40, medium |-> 30, hard |-> 25]

(* isValid without its 3x3 box loop *)
isValidNoBox(grid, row, col, num) ==
    /\ \A x \in Idx : grid[<<row, x>>] # num
    /\ \A x \in Idx : grid[<<x, col>>] # num

isValid(grid, row, col, num) ==
    /\ \A x \in Idx : grid[<<row, x>>] # num
    /\ \A x \in Idx : grid[<<x, col>>] # num
    /\ \A c \in BoxCells((row \div Box) * Box, (col \div Box) * Box) : grid[c] # num

CellNo(c) == c[1] * N + c[2]

findEmptyCell(grid) ==
    IF \A c \in Cell : grid[c] # 0 THEN <<>>
    ELSE CHOOSE c \in Cell :
            /\ grid[c] = 0
            /\ \A d \in Cell : grid[d] = 0 => CellNo(c) <= CellNo(d)

(* generateCompleteSolution before it calls solveSudoku: the diagonal   *)
(* boxes hold nums, the three shuffled permutations of 1..9              *)
fillDiagonal(nums) ==
    [c \in Cell |->
        IF c[1] \div Box = c[2] \div Box
        THEN nums[(c[1] \div Box) + 1][(c[1] % Box) * Box + (c[2] % Box) + 1]
        ELSE 0]

(* the for loop of solveSudoku at one cell: the least num >= from that   *)
(* isValid accepts, 0 when the loop runs out                             *)
nextValid(grid, cell, from) ==
    LET ok == {num \in from .. 9 : isValid(grid, cell[1], cell[2], num)}
    IN IF ok = {} THEN 0 ELSE CHOOSE num \in ok : \A other \in ok : num <= other

(* solveSudoku's recursion with its call stack made explicit: stack      *)
(* holds the cells of the active calls that have placed a number, mode   *)
(* is "call" when a call of solveSudoku starts and "backtrack" when the  *)
(* call made by the innermost active call has returned false             *)
solveStep(s) ==
    IF s.mode = "call"
    THEN LET emptyCell == findEmptyCell(s.grid)
         IN IF emptyCell = <<>> THEN [s EXCEPT !.mode = "solved"]
            ELSE LET num == nextValid(s.grid, emptyCell, 1)
                 IN IF num = 0 THEN [s EXCEPT !.mode = "backtrack"]
                    ELSE [s EXCEPT !.grid[emptyCell] = num,
                                   !.stack = Append(@, emptyCell)]
    ELSE IF s.stack = <<>> THEN [s EXCEPT !.mode = "unsolved"]
    ELSE LET cell == s.stack[Len(s.stack)]
             reset == [s.grid EXCEPT ![cell] = 0]
             num == nextValid(reset, cell, s.grid[cell] + 1)
         IN IF num = 0
            THEN [s EXCEPT !.grid = reset, !.stack = SubSeq(@, 1, Len(@) - 1)]
            ELSE [s EXCEPT !.grid[cell] = num, !.mode = "call"]

(* The path under construction: the Set in insertion order, the current  *)
(* cell and the number of random draws consumed.  A draw u stands for    *)
(* Math.random() in [u/RandDen, (u+1)/RandDen).                          *)
RandDen == 6
(* directions with a move to the left as well *)
directionsWithLeft == <<<<-1, 0>>, <<1, 0>>, <<0, 1>>, <<0, -1>>>>

directions == <<<<-1, 0>>, <<1, 0>>, <<0, 1>>>>

Draw(draws, k) == draws[((k - 1) % Len(draws)) + 1]

RECURSIVE pathLoop(_, _, _, _, _)
pathLoop(pathCells, currentRow, currentCol, draws, k) ==
    IF ~(currentCol < 8) THEN [path |-> pathCells, row |-> currentRow, col |-> currentCol]
    ELSE LET ok(d) == /\ currentRow + d[1] >= 0 /\ currentRow + d[1] < 9
                      /\ currentCol + d[2] >= 0 /\ currentCol + d[2] < 9
                      /\ <<currentRow + d[1], currentCol + d[2]>> \notin Range(pathCells)
             possibleMoves == SelectSeq(directions, ok)
         IN IF Len(possibleMoves) = 0
            THEN IF currentCol + 1 < 9 /\ <<currentRow, currentCol + 1>> \notin Range(pathCells)
                 THEN pathLoop(Append(pathCells, <<currentRow, currentCol + 1>>),
                               currentRow, currentCol + 1, draws, k)
                 ELSE [path |-> pathCells, row |-> currentRow, col |-> currentCol]
            ELSE LET m == possibleMoves[((Draw(draws, k) * Len(possibleMoves)) \div RandDen) + 1]
                 IN pathLoop(Append(pathCells, <<currentRow + m[1], currentCol + m[2]>>),
                             currentRow + m[1], currentCol + m[2], draws, k + 1)

RECURSIVE pathRun(_, _, _, _, _)
pathRun(pathCells, r, step, endRow, col) ==
    IF (IF step > 0 THEN r <= endRow ELSE r >= endRow)
    THEN pathRun(IF <<r, col>> \in Range(pathCells) THEN pathCells
                 ELSE Append(pathCells, <<r, col>>),
                 r + step, step, endRow, col)
    ELSE pathCells

(* seed: the draws of one call: start row, end row, move draws *)
generateEnemyPath(seed) ==
    LET walked == pathLoop(<<<<seed.startRow, 0>>>>, seed.startRow, 0, seed.draws, 1)
    IN IF walked.col = 8 /\ walked.row # seed.endRow
       THEN LET step == IF walked.row < seed.endRow THEN 1 ELSE -1
            IN pathRun(walked.path, walked.row + step, step, seed.endRow, walked.col)
       ELSE walked.path

(* positions: the shuffled list of all 81 positions; revealed counts the *)
(* non-path positions that precede a position in it                      *)
createPuzzleFromSolution(solution, pathCells, numToReveal, positions) ==
    LET pathSet == Range(pathCells)
        revealed(j) == Cardinality({i \in 1 .. (j - 1) : positions[i] \notin pathSet})
        keep == {positions[j] : j \in {i \in DOMAIN positions :
                    positions[i] \notin pathSet /\ revealed(i) < numToReveal}}
    IN [puzzle |-> [c \in Cell |-> IF c \in keep THEN solution[c] ELSE 0],
        fixed |-> [c \in Cell |-> c \in keep]]

(* generatePuzzle once generateCompleteSolution has returned solution *)
generatePuzzle(difficulty, pathSeed, solution, positions) ==
    LET path == generateEnemyPath(pathSeed)
        cellsToReveal == IF difficulty \in DOMAIN difficultySettings
                         THEN difficultySettings[difficulty]
                         ELSE difficultySettings.medium
        made == createPuzzleFromSolution(solution, path, cellsToReveal, positions)
    IN [board |-> made.puzzle, solution |-> solution,
        fixedCells |-> made.fixed, pathCells |-> path]

(* ------------------------------------------------------------------ *)
(* State                                                               *)
(* ------------------------------------------------------------------ *)
VARIABLES
    board, solution, fixedCells, pathCells, difficulty,
    completedRows, completedColumns, completedGrids,
    rowBonuses, columnBonuses, gridBonuses, modal,
    towers, towerId, incorrectTowers,
    state,
    path,
    enemies, enemyId, waveNumber, isWaveActive, spawnInterval, enemiesRemaining,
    pathTimers,
    isRunning, isPaused, frames,
    solver, isInitialized,
    checked, episode,
    out, ret, last

vars == <<board, solution, fixedCells, pathCells, difficulty,
          completedRows, completedColumns, completedGrids,
          rowBonuses, columnBonuses, gridBonuses, modal,
          towers, towerId, incorrectTowers, state, path,
          enemies, enemyId, waveNumber, isWaveActive, spawnInterval, enemiesRemaining,
          pathTimers, isRunning, isPaused, frames, solver, isInitialized,
          checked, episode, out, ret, last>>

(* The modules' state as one value, threaded through a handler's steps *)
World ==
    [board |-> board, solution |-> solution, fixedCells |-> fixedCells,
     pathCells |-> pathCells, difficulty |-> difficulty,
     completedRows |-> completedRows, completedColumns |-> completedColumns,
     completedGrids |-> completedGrids,
     rowBonuses |-> rowBonuses, columnBonuses |-> columnBonuses,
     gridBonuses |-> gridBonuses, modal |-> modal,
     towers |-> towers, towerId |-> towerId, incorrectTowers |-> incorrectTowers,
     state |-> state, path |-> path,
     enemies |-> enemies, enemyId |-> enemyId, waveNumber |-> waveNumber,
     isWaveActive |-> isWaveActive, spawnInterval |-> spawnInterval,
     enemiesRemaining |-> enemiesRemaining, pathTimers |-> pathTimers,
     isRunning |-> isRunning, isPaused |-> isPaused, frames |-> frames,
     checked |-> checked, out |-> <<>>, ret |-> Null]

(* EventSystem.publish: subscribers run synchronously; the event is also *)
(* recorded in the list of events the running handler emitted            *)
Emit(w, name, data) == [w EXCEPT !.out = Append(@, [name |-> name, data |-> data])]

StatusMessage(w, text) == Emit(w, "status:message", text)

(* ------------------------------------------------------------------ *)
(* GameLoop.pause / resume                                             *)
(* ------------------------------------------------------------------ *)
(* requestAnimationFrame(gameLoop): one more callback of the loop is   *)
(* pending; pending callbacks are counted up to MaxFrames               *)
requestAnimationFrame(w) == [w EXCEPT !.frames = Min(@ + 1, MaxFrames)]

(* the browser takes a pending callback to run it *)
frameCallback(w) == [w EXCEPT !.frames = @ - 1]

pause(w) ==
    IF ~w.isRunning \/ w.isPaused THEN w
    ELSE Emit([w EXCEPT !.isPaused = TRUE], "game:pause", Null)

resume(w) ==
    IF ~w.isRunning \/ ~w.isPaused THEN w
    ELSE requestAnimationFrame(Emit([w EXCEPT !.isPaused = FALSE], "game:resume", Null))

(* ------------------------------------------------------------------ *)
(* CompletionBonusModule                                               *)
(* ------------------------------------------------------------------ *)
BonusTypes == {"DAMAGE", "POINTS", "CURRENCY"}

(* `${unitType}-${unitIndex}` as its '-'-separated parts *)
bonusKey(unitType, unitIndex) == <<unitType>> \o unitIndex

(* onUnitCompleted: pause, then showBonusChoiceModal, which rewrites the *)
(* single modal element for this unit and shows it                       *)
onUnitCompleted(w, unitType, unitIndex) ==
    LET w1 == pause(Emit(w, "unit:completed", bonusKey(unitType, unitIndex)))
    IN [w1 EXCEPT !.modal = [active |-> TRUE, unitType |-> unitType, unitIndex |-> unitIndex]]

applyBonus(w, unitType, unitIndex, bonusType) ==
    LET key == bonusKey(unitType, unitIndex)
        put(m) == [k \in DOMAIN m \cup {key} |-> IF k = key THEN bonusType ELSE m[k]]
        w1 == CASE unitType = "row" -> [w EXCEPT !.rowBonuses = put(@)]
                [] unitType = "column" -> [w EXCEPT !.columnBonuses = put(@)]
                [] unitType = "grid" -> [w EXCEPT !.gridBonuses = put(@)]
                [] OTHER -> w
    IN StatusMessage(w1, "bonus")

(* the cells of the unit lose their bonus styling *)
removeVisualEffect(w, key) == Emit(w, "removeVisualEffect", key)

Without(m, key) == [k \in DOMAIN m \ {key} |-> m[k]]

(* unitIndex arrives as the parts of a string *)
checkUnitCompletion(w, unitType, unitIndex) ==
    LET key == bonusKey(unitType, unitIndex)
    IN CASE unitType = "row" ->
              IF ParseInt(unitIndex[1]) \notin w.completedRows /\ key \in DOMAIN w.rowBonuses
              THEN removeVisualEffect([w EXCEPT !.rowBonuses = Without(@, key)], key) ELSE w
         [] unitType = "column" ->
              IF ParseInt(unitIndex[1]) \notin w.completedColumns /\ key \in DOMAIN w.columnBonuses
              THEN removeVisualEffect([w EXCEPT !.columnBonuses = Without(@, key)], key) ELSE w
         [] unitType = "grid" ->
              IF unitIndex \notin w.completedGrids /\ key \in DOMAIN w.gridBonuses
              THEN removeVisualEffect([w EXCEPT !.gridBonuses = Without(@, key)], key) ELSE w
         [] OTHER -> w

(* for (key in bonuses) checkUnitCompletion(type, key.split('-')[1]) *)
RECURSIVE checkEach(_, _, _)
checkEach(w, unitType, keys) ==
    IF keys = {} THEN w
    ELSE LET key == CHOOSE k \in keys : TRUE
         IN checkEach(checkUnitCompletion(w, unitType, <<key[2]>>), unitType, keys \ {key})

(* checkBoardCompletions without the loop over rowBonuses *)
checkBoardCompletionsNoRows(w) ==
    LET w2 == checkEach(w, "column", DOMAIN w.columnBonuses)
    IN checkEach(w2, "grid", DOMAIN w2.gridBonuses)

checkBoardCompletions(w) ==
    LET w1 == checkEach(w, "row", DOMAIN w.rowBonuses)
        w2 == checkEach(w1, "column", DOMAIN w1.columnBonuses)
    IN checkEach(w2, "grid", DOMAIN w2.gridBonuses)

(* ------------------------------------------------------------------ *)
(* SudokuCompletion                                                    *)
(* ------------------------------------------------------------------ *)
(* The scan of one unit's non-path cells: no empty cell, no value used   *)
(* twice                                                                  *)
scanUnit(b, nonPathCells) ==
    /\ \A c \in nonPathCells : b[c] # 0
    /\ \A c1, c2 \in nonPathCells : c1 # c2 => b[c1] # b[c2]

IdxSeq == [i \in 1 .. N |-> i - 1]
GridSeq == [i \in 1 .. (Box * Box) |-> <<(i - 1) \div Box, (i - 1) % Box>>]

RECURSIVE signalAll(_, _, _)
signalAll(w, unitType, indices) ==
    IF indices = <<>> THEN w
    ELSE signalAll(onUnitCompleted(w, unitType, Head(indices)), unitType, Tail(indices))

(* checkRowCompletions without the completedRows.has(row) test *)
checkRowCompletionsResignal(w) ==
    LET np(row) == RowCells(row) \ Range(w.pathCells)
        done(row) == scanUnit(w.board, np(row))
        fresh(row) == np(row) # {} /\ done(row)
        kept == {row \in Idx : IF np(row) = {} THEN row \in w.completedRows ELSE done(row)}
        signals == [i \in DOMAIN SelectSeq(IdxSeq, fresh) |-> <<ToStr(SelectSeq(IdxSeq, fresh)[i])>>]
    IN signalAll([w EXCEPT !.completedRows = kept], "row", signals)

checkRowCompletions(w) ==
    LET np(row) == RowCells(row) \ Range(w.pathCells)
        done(row) == scanUnit(w.board, np(row))
        fresh(row) == np(row) # {} /\ done(row) /\ row \notin w.completedRows
        kept == {row \in Idx : IF np(row) = {} THEN row \in w.completedRows ELSE done(row)}
        signals == [i \in DOMAIN SelectSeq(IdxSeq, fresh) |-> <<ToStr(SelectSeq(IdxSeq, fresh)[i])>>]
    IN signalAll([w EXCEPT !.completedRows = kept], "row", signals)

(* checkColumnCompletions without the pathCells.has test *)
checkColumnCompletionsWithPath(w) ==
    LET np(col) == ColCells(col)
        done(col) == scanUnit(w.board, np(col))
        fresh(col) == np(col) # {} /\ done(col) /\ col \notin w.completedColumns
        kept == {col \in Idx : IF np(col) = {} THEN col \in w.completedColumns ELSE done(col)}
        signals == [i \in DOMAIN SelectSeq(IdxSeq, fresh) |-> <<ToStr(SelectSeq(IdxSeq, fresh)[i])>>]
    IN signalAll([w EXCEPT !.completedColumns = kept], "column", signals)

checkColumnCompletions(w) ==
    LET np(col) == ColCells(col) \ Range(w.pathCells)
        done(col) == scanUnit(w.board, np(col))
        fresh(col) == np(col) # {} /\ done(col) /\ col \notin w.completedColumns
        kept == {col \in Idx : IF np(col) = {} THEN col \in w.completedColumns ELSE done(col)}
        signals == [i \in DOMAIN SelectSeq(IdxSeq, fresh) |-> <<ToStr(SelectSeq(IdxSeq, fresh)[i])>>]
    IN signalAll([w EXCEPT !.completedColumns = kept], "column", signals)

gridKeyOf(g) == <<ToStr(g[1]), ToStr(g[2])>>

checkGridCompletions(w) ==
    LET np(g) == BoxCells(g[1] * Box, g[2] * Box) \ Range(w.pathCells)
        done(g) == scanUnit(w.board, np(g))
        fresh(g) == np(g) # {} /\ done(g) /\ gridKeyOf(g) \notin w.completedGrids
        kept == {gridKeyOf(g) : g \in {h \in Range(GridSeq) :
                    IF np(h) = {} THEN gridKeyOf(h) \in w.completedGrids ELSE done(h)}}
        signals == [i \in DOMAIN SelectSeq(GridSeq, fresh) |-> gridKeyOf(SelectSeq(GridSeq, fresh)[i])]
    IN signalAll([w EXCEPT !.completedGrids = kept], "grid", signals)

checkCompletions(w) ==
    [checkGridCompletions(checkColumnCompletions(checkRowCompletions(w)))
        EXCEPT !.checked = TRUE]

isComplete(w) ==
    /\ \A c \in Cell : ~(w.board[c] = 0 /\ c \notin Range(w.pathCells))
    /\ isBoardValid(w.board, Range(w.pathCells))

(* ------------------------------------------------------------------ *)
(* SudokuBoard.setCellValue: the world after the call, with the        *)
(* returned boolean in .ret                                            *)
(* ------------------------------------------------------------------ *)
setCellValue(w, row, col, value) ==
    IF w.fixedCells[<<row, col>>]
    THEN [StatusMessage(w, "fixed") EXCEPT !.ret = "false"]
    ELSE IF <<row, col>> \in Range(w.pathCells)
    THEN [StatusMessage(w, "path") EXCEPT !.ret = "false"]
    ELSE IF value = 0
    THEN [checkCompletions([w EXCEPT !.board[<<row, col>>] = 0]) EXCEPT !.ret = "true"]
    ELSE IF ~isValidMove(w.board, row, col, value)
    THEN LET w1 == Emit(w, "sudoku:cell:invalid", <<row, col, value>>)
             validNumbers == getPossibleValues(w.board, row, col)
         IN [StatusMessage(w1, IF validNumbers # {} THEN "invalid:options" ELSE "invalid")
                EXCEPT !.ret = "false"]
    ELSE LET w1 == Emit([w EXCEPT !.board[<<row, col>>] = value],
                        "sudoku:cell:valid", <<row, col, value>>)
             w2 == checkCompletions(w1)
             w3 == IF isComplete(w2) THEN Emit(w2, "sudoku:complete", Null) ELSE w2
         IN [w3 EXCEPT !.ret = "true"]

(* ------------------------------------------------------------------ *)
(* PlayerModule                                                        *)
(* ------------------------------------------------------------------ *)
addCurrency(w, amount) ==
    Emit([w EXCEPT !.state.currency = @ + amount], "player:currency:change", Null)

(* spendCurrency without the comparison with the balance *)
spendCurrencyUnchecked(w, amount) ==
    [Emit([w EXCEPT !.state.currency = @ - amount], "player:currency:change", Null)
        EXCEPT !.ret = "true"]

spendCurrency(w, amount) ==
    IF w.state.currency >= amount
    THEN [Emit([w EXCEPT !.state.currency = @ - amount], "player:currency:change", Null)
            EXCEPT !.ret = "true"]
    ELSE [w EXCEPT !.ret = "false"]

addScore(w, points) ==
    Emit([w EXCEPT !.state.score = @ + points], "player:score:change", Null)

(* game over opens the game-over modal, which pauses the loop *)
loseLife(w) ==
    LET w1 == Emit([w EXCEPT !.state.lives = @ - 1], "player:lives:change", Null)
    IN IF w1.state.lives <= 0 THEN pause(Emit(w1, "game:over", Null)) ELSE w1

(* ------------------------------------------------------------------ *)
(* TowerPlacement                                                      *)
(* ------------------------------------------------------------------ *)
IsNumberTower(numberValue) == numberValue # NaN /\ numberValue >= 1 /\ numberValue <= 9

getTowerAt(w, row, col) ==
    {i \in DOMAIN w.towers : w.towers[i].row = row /\ w.towers[i].col = col}

(* TOWER_PLACED and TOWER_REMOVED subscribers *)
onTowerChanged(w) == checkBoardCompletions(checkCompletions(w))

(* createTower without the getTowerAt check *)
createTowerNoOccupied(w, type, row, col) ==
    IF getTowerType(type) = <<>>
    THEN [StatusMessage(w, "invalid type") EXCEPT !.ret = Null]
    ELSE LET typeData == getTowerType(type)[1]
             numberValue == ParseInt(type)
             isCorrect == ~(IsNumberTower(numberValue) /\ w.solution[<<row, col>>] # numberValue)
             tower == [id |-> w.towerId + 1, type |-> type,
                       damage |-> typeData.damage,
                       range |-> (typeData.range * CellSize * PosScale) \div 10,
                       attackSpeed |-> typeData.attackSpeed,
                       attackCooldown |-> 0, level |-> 1,
                       row |-> row, col |-> col,
                       x |-> col * CellSize * PosScale + (CellSize * PosScale) \div 2,
                       y |-> row * CellSize * PosScale + (CellSize * PosScale) \div 2,
                       isCorrect |-> isCorrect]
         IN IF w.state.currency < typeData.cost
            THEN [StatusMessage(w, "not enough currency") EXCEPT !.ret = Null]
            ELSE IF w.fixedCells[<<row, col>>]
            THEN [StatusMessage(w, "fixed") EXCEPT !.ret = Null]
            ELSE IF <<row, col>> \in Range(w.pathCells)
            THEN [StatusMessage(w, "path") EXCEPT !.ret = Null]
            ELSE LET w1 == IF isCorrect THEN w ELSE StatusMessage(w, "warning")
                     w2 == spendCurrency([w1 EXCEPT !.towerId = @ + 1], typeData.cost)
                     w3 == [w2 EXCEPT !.towers = Append(@, tower)]
                     w4 == IF IsNumberTower(numberValue)
                           THEN LET w5 == setCellValue(w3, row, col, numberValue)
                                IN IF isCorrect THEN w5
                                   ELSE [w5 EXCEPT !.incorrectTowers = @ \cup {tower.id}]
                           ELSE w3
                 IN [onTowerChanged(Emit(w4, "tower:placed", tower.id))
                        EXCEPT !.ret = "tower"]

createTower(w, type, row, col) ==
    IF getTowerType(type) = <<>>
    THEN [StatusMessage(w, "invalid type") EXCEPT !.ret = Null]
    ELSE LET typeData == getTowerType(type)[1]
             numberValue == ParseInt(type)
             isCorrect == ~(IsNumberTower(numberValue) /\ w.solution[<<row, col>>] # numberValue)
             tower == [id |-> w.towerId + 1, type |-> type,
                       damage |-> typeData.damage,
                       range |-> (typeData.range * CellSize * PosScale) \div 10,
                       attackSpeed |-> typeData.attackSpeed,
                       attackCooldown |-> 0, level |-> 1,
                       row |-> row, col |-> col,
                       x |-> col * CellSize * PosScale + (CellSize * PosScale) \div 2,
                       y |-> row * CellSize * PosScale + (CellSize * PosScale) \div 2,
                       isCorrect |-> isCorrect]
         IN IF w.state.currency < typeData.cost
            THEN [StatusMessage(w, "not enough currency") EXCEPT !.ret = Null]
            ELSE IF w.fixedCells[<<row, col>>]
            THEN [StatusMessage(w, "fixed") EXCEPT !.ret = Null]
            ELSE IF <<row, col>> \in Range(w.pathCells)
            THEN [StatusMessage(w, "path") EXCEPT !.ret = Null]
            ELSE IF getTowerAt(w, row, col) # {}
            THEN [StatusMessage(w, "occupied") EXCEPT !.ret = Null]
            ELSE LET w1 == IF isCorrect THEN w ELSE StatusMessage(w, "warning")
                     w2 == spendCurrency([w1 EXCEPT !.towerId = @ + 1], typeData.cost)
                     w3 == [w2 EXCEPT !.towers = Append(@, tower)]
                     w4 == IF IsNumberTower(numberValue)
                           THEN LET w5 == setCellValue(w3, row, col, numberValue)
                                IN IF isCorrect THEN w5
                                   ELSE [w5 EXCEPT !.incorrectTowers = @ \cup {tower.id}]
                           ELSE w3
                 IN [onTowerChanged(Emit(w4, "tower:placed", tower.id))
                        EXCEPT !.ret = "tower"]

RemoveAt(s, i) == [j \in 1 .. (Len(s) - 1) |-> IF j < i THEN s[j] ELSE s[j + 1]]

(* removeTower without clearing the board cell *)
removeTowerKeepCell(w, id) ==
    LET found == {i \in DOMAIN w.towers : w.towers[i].id = id}
    IN IF found = {} THEN [w EXCEPT !.ret = "false"]
       ELSE LET i == CHOOSE j \in found : TRUE
                w1 == [w EXCEPT !.towers = RemoveAt(@, i)]
                w3 == [w1 EXCEPT !.incorrectTowers = @ \ {id}]
            IN [onTowerChanged(Emit(w3, "tower:removed", id)) EXCEPT !.ret = "true"]

removeTower(w, id) ==
    LET found == {i \in DOMAIN w.towers : w.towers[i].id = id}
    IN IF found = {} THEN [w EXCEPT !.ret = "false"]
       ELSE LET i == CHOOSE j \in found : TRUE
                tower == w.towers[i]
                w1 == [w EXCEPT !.towers = RemoveAt(@, i)]
                w2 == setCellValue(w1, tower.row, tower.col, 0)
                w3 == [w2 EXCEPT !.incorrectTowers = @ \ {id}]
            IN [onTowerChanged(Emit(w3, "tower:removed", id)) EXCEPT !.ret = "true"]

RECURSIVE removeEach(_, _)
removeEach(w, ids) ==
    IF ids = <<>> THEN w ELSE removeEach(removeTower(w, Head(ids)), Tail(ids))

RECURSIVE SumSeq(_)
SumSeq(s) == IF s = <<>> THEN 0 ELSE Head(s) + SumSeq(Tail(s))

(* the refund with the whole base cost given back *)
refundOfFull(tower) ==
    LET baseRefund == towerTypes[tower.type].cost
        upgradeRefund == (baseRefund * (tower.level - 1) * 75) \div 100
    IN baseRefund + upgradeRefund

refundOf(tower) ==
    LET baseRefund == (towerTypes[tower.type].cost * 5) \div 10
        upgradeRefund == (baseRefund * (tower.level - 1) * 75) \div 100
    IN baseRefund + upgradeRefund

removeIncorrectTowers(w) ==
    IF w.incorrectTowers = {} THEN w
    ELSE LET isIncorrect(t) == t.id \in w.incorrectTowers
             towersToRemove == SelectSeq(w.towers, isIncorrect)
             refundAmount == SumSeq([i \in DOMAIN towersToRemove |->
                                 IF towersToRemove[i].type \in DOMAIN towerTypes
                                 THEN refundOf(towersToRemove[i]) ELSE 0])
             w1 == IF refundAmount > 0
                   THEN StatusMessage(addCurrency(w, refundAmount), "refund")
                   ELSE w
             w2 == removeEach(w1, [i \in DOMAIN towersToRemove |-> towersToRemove[i].id])
         IN [w2 EXCEPT !.incorrectTowers = {}]

(* ------------------------------------------------------------------ *)
(* TowerUpgrades.upgradeTower                                          *)
(* ------------------------------------------------------------------ *)
upgradeTower(w, id) ==
    LET found == {i \in DOMAIN w.towers : w.towers[i].id = id}
    IN IF found = {} THEN [w EXCEPT !.ret = "false"]
       ELSE LET i == CHOOSE j \in found : TRUE
                tower == w.towers[i]
                upgradeCost == getUpgradeCost(tower.type, tower.level)
                w1 == spendCurrency(w, upgradeCost)
                upgradedStats == getUpgradedStats(tower)
            IN IF w1.ret = "false"
               THEN [StatusMessage(w1, "not enough currency to upgrade") EXCEPT !.ret = "false"]
               ELSE [Emit([w1 EXCEPT !.towers[i] =
                             [tower EXCEPT !.level = @ + 1,
                                           !.damage = upgradedStats.damage,
                                           !.range = upgradedStats.range,
                                           !.attackSpeed = upgradedStats.attackSpeed]],
                          "tower:upgrade", id)
                       EXCEPT !.ret = "true"]

(* ------------------------------------------------------------------ *)
(* EnemyTypes: speed in tenths                                         *)
(* ------------------------------------------------------------------ *)
enemyTypes ==
    [t \in {"1", "2", "3", "4", "5", "6", "7", "8", "9", "boss"} |->
        CASE t = "1" -> [health |-> 60,  speed |-> 9,  reward |-> 15, points |-> 5]
          [] t = "2" -> [health |-> 70,  speed |-> 10, reward |-> 18, points |-> 7]
          [] t = "3" -> [health |-> 80,  speed |-> 11, reward |-> 21, points |-> 9]
          [] t = "4" -> [health |-> 90,  speed |-> 12, reward |-> 24, points |-> 11]
          [] t = "5" -> [health |-> 100, speed |-> 13, reward |-> 27, points |-> 13]
          [] t = "6" -> [health |-> 120, speed |-> 14, reward |-> 30, points |-> 15]
          [] t = "7" -> [health |-> 140, speed |-> 15, reward |-> 33, points |-> 17]
          [] t = "8" -> [health |-> 160, speed |-> 16, reward |-> 36, points |-> 19]
          [] t = "9" -> [health |-> 180, speed |-> 17, reward |-> 39, points |-> 21]
          [] OTHER   -> [health |-> 300, speed |-> 7,  reward |-> 75, points |-> 50]]

(* getAvailableTypesForWave without the boss of every third wave *)
getAvailableTypesForWaveNoBoss(wave) ==
    LET availableTypes == Min(9, (wave + 1) \div 2)
    IN [i \in 1 .. availableTypes |-> ToStr(i)]

(* Object.keys order: the numeric kinds ascending, then boss *)
getAvailableTypesForWave(wave) ==
    LET availableTypes == Min(9, (wave + 1) \div 2)
        numbers == [i \in 1 .. availableTypes |-> ToStr(i)]
    IN IF wave % 3 = 0 THEN Append(numbers, "boss") ELSE numbers

applyWaveScaling(enemyData, wave) ==
    [health |-> (enemyData.health * (10 + (wave - 1) * 2)) \div 10,
     maxHealth |-> (enemyData.health * (10 + (wave - 1) * 2)) \div 10,
     speed |-> enemyData.speed,
     reward |-> (enemyData.reward * (10 + (wave - 1))) \div 10,
     points |-> (enemyData.points * (100 + (wave - 1) * 5)) \div 100]

(* ------------------------------------------------------------------ *)
(* EnemyMovement                                                       *)
(* ------------------------------------------------------------------ *)
CellCenter(cell) ==
    [x |-> cell[2] * CellSize * PosScale + (CellSize * PosScale) \div 2,
     y |-> cell[1] * CellSize * PosScale + (CellSize * PosScale) \div 2]

Abs(n) == IF n < 0 THEN -n ELSE n

(* path segments are axis-aligned, so the Euclidean length of a segment *)
(* is the sum of its two coordinate differences                         *)
SegmentLength(a, b) ==
    Abs(CellCenter(b).x - CellCenter(a).x) + Abs(CellCenter(b).y - CellCenter(a).y)

(* deltaTime in milliseconds, speed in tenths; the result is           *)
(* speed * 50 * deltaTime pixels in position units                     *)
MoveSpeed(enemy, deltaTime) == (enemy.speed * deltaTime * PosScale) \div 200

(* progress is kept in position units of a full cell: CellSize * PosScale = 1 *)
ProgressOne == CellSize * PosScale

(* the enemy after the move, with reachedEnd *)
moveEnemy(p, enemy, deltaTime) ==
    IF ~enemy.active THEN [enemy |-> enemy, reachedEnd |-> FALSE]
    ELSE IF enemy.pathIndex >= Len(p) - 1 THEN [enemy |-> enemy, reachedEnd |-> TRUE]
    ELSE LET currentCell == p[enemy.pathIndex + 1]
             nextCell == p[enemy.pathIndex + 2]
             progress == enemy.progress
                 + (MoveSpeed(enemy, deltaTime) * ProgressOne) \div SegmentLength(currentCell, nextCell)
             e1 == IF progress >= ProgressOne
                   THEN [enemy EXCEPT !.pathIndex = @ + 1, !.progress = 0]
                   ELSE [enemy EXCEPT !.progress = progress]
         IN IF e1.pathIndex >= Len(p) - 1 THEN [enemy |-> e1, reachedEnd |-> TRUE]
            ELSE LET a == CellCenter(p[e1.pathIndex + 1])
                     b == CellCenter(p[e1.pathIndex + 2])
                 IN [enemy |-> [e1 EXCEPT !.x = a.x + ((b.x - a.x) * e1.progress) \div ProgressOne,
                                          !.y = a.y + ((b.y - a.y) * e1.progress) \div ProgressOne],
                     reachedEnd |-> FALSE]

getStartingPosition(p) ==
    IF Len(p) = 0 THEN [x |-> 0, y |-> 0, pathIndex |-> 0, progress |-> 0]
    ELSE [x |-> CellCenter(p[1]).x, y |-> CellCenter(p[1]).y, pathIndex |-> 0, progress |-> 0]

setPath(w, newPath) == IF Len(newPath) > 0 THEN [w EXCEPT !.path = newPath] ELSE w

(* ------------------------------------------------------------------ *)
(* EnemyWaves                                                          *)
(* ------------------------------------------------------------------ *)
(* elapsed: the time since the interval last came due, in ms *)
NoInterval == [on |-> FALSE, enemiesSpawned |-> 0, enemyCount |-> 0, elapsed |-> 0]

(* 1000 / Math.sqrt(waveNumber), in whole ms *)
spawnPeriods ==
    [wave \in 1 .. MaxEnemyId |->
        1000000 \div (CHOOSE r \in 1000 .. 1000 * wave :
                         r * r <= wave * 1000000 /\ (r + 1) * (r + 1) > wave * 1000000)]

spawnPeriod(wave) == spawnPeriods[wave]

(* deltaTime more has passed since the interval last came due *)
advanceTimers(w, deltaTime) ==
    [w EXCEPT !.spawnInterval = IF @.on THEN [@ EXCEPT !.elapsed = @ + deltaTime] ELSE @]

createEnemy(w, type) ==
    IF type \notin DOMAIN enemyTypes THEN w
    ELSE LET scaledData == applyWaveScaling(enemyTypes[type], w.waveNumber)
             startPos == getStartingPosition(w.path)
             enemy == [id |-> w.enemyId + 1, type |-> type,
                       health |-> scaledData.health, maxHealth |-> scaledData.maxHealth,
                       speed |-> scaledData.speed, reward |-> scaledData.reward,
                       points |-> scaledData.points,
                       x |-> startPos.x, y |-> startPos.y,
                       pathIndex |-> startPos.pathIndex, progress |-> startPos.progress,
                       active |-> TRUE]
         IN Emit([w EXCEPT !.enemyId = @ + 1, !.enemies = Append(@, enemy)],
                 "enemy:spawn", enemy.id)

(* startWave without the isWaveActive test *)
startWaveUnguarded(w) ==
    IF Len(w.path) = 0 THEN StatusMessage(w, "no path")
    ELSE LET enemyCount == 6 + (w.waveNumber - 1) * 3
             w1 == [w EXCEPT !.isWaveActive = TRUE,
                             !.enemiesRemaining = enemyCount,
                             !.spawnInterval = [on |-> TRUE, enemiesSpawned |-> 0,
                                                enemyCount |-> enemyCount,
                                                elapsed |-> 0]]
         IN StatusMessage(Emit(w1, "wave:start", <<w.waveNumber, enemyCount>>), "wave started")

startWave(w) ==
    IF w.isWaveActive THEN w
    ELSE IF Len(w.path) = 0 THEN StatusMessage(w, "no path")
    ELSE LET enemyCount == 6 + (w.waveNumber - 1) * 3
             w1 == [w EXCEPT !.isWaveActive = TRUE,
                             !.enemiesRemaining = enemyCount,
                             !.spawnInterval = [on |-> TRUE, enemiesSpawned |-> 0,
                                                enemyCount |-> enemyCount,
                                                elapsed |-> 0]]
         IN StatusMessage(Emit(w1, "wave:start", <<w.waveNumber, enemyCount>>), "wave started")

setWaveNumber(w, num) == IF num > 0 THEN [w EXCEPT !.waveNumber = num] ELSE w

(* the callback with enemiesSpawned > enemyCount as its stop test *)
spawnTickOneMore(w, u) ==
    LET si == w.spawnInterval
    IN IF si.enemiesSpawned > si.enemyCount
       THEN [w EXCEPT !.spawnInterval = NoInterval]
       ELSE LET availableTypes == getAvailableTypesForWave(w.waveNumber)
                isNormal(t) == t # "boss"
                normalTypes == SelectSeq(availableTypes, isNormal)
                enemyType == IF si.enemiesSpawned * 10 >= si.enemyCount * 9
                                /\ "boss" \in Range(availableTypes)
                             THEN "boss"
                             ELSE normalTypes[((u * Len(normalTypes)) \div RandDen) + 1]
            IN [createEnemy(w, enemyType)
                   EXCEPT !.spawnInterval.enemiesSpawned = @ + 1,
                          !.spawnInterval.elapsed = @ - spawnPeriod(w.waveNumber)]

(* the setInterval callback; u is the Math.random() draw *)
spawnTick(w, u) ==
    LET si == w.spawnInterval
    IN IF si.enemiesSpawned >= si.enemyCount
       THEN [w EXCEPT !.spawnInterval = NoInterval]
       ELSE LET availableTypes == getAvailableTypesForWave(w.waveNumber)
                isNormal(t) == t # "boss"
                normalTypes == SelectSeq(availableTypes, isNormal)
                enemyType == IF si.enemiesSpawned * 10 >= si.enemyCount * 9
                                /\ "boss" \in Range(availableTypes)
                             THEN "boss"
                             ELSE normalTypes[((u * Len(normalTypes)) \div RandDen) + 1]
            IN [createEnemy(w, enemyType)
                   EXCEPT !.spawnInterval.enemiesSpawned = @ + 1,
                          !.spawnInterval.elapsed = @ - spawnPeriod(w.waveNumber)]

(* PlayerModule and WaveBonusModule both subscribe to WAVE_COMPLETE *)
calculateWaveBonus(wave) ==
    [currency |-> (20 * wave * (10 + (wave - 1))) \div 10,
     score |-> (20 * wave * 2 * (10 + (wave - 1))) \div 10]

applyWaveBonus(w, wave) ==
    LET bonus == calculateWaveBonus(wave)
    IN StatusMessage(addScore(addCurrency(w, bonus.currency), bonus.score), "wave bonus")

playerWaveComplete(w, wave) ==
    LET waveBonus == wave * 20
    IN StatusMessage(addScore(addCurrency(w, waveBonus), waveBonus * 2), "wave completed")

(* waveComplete without waveNumber++ *)
waveCompleteSameNumber(w) ==
    LET w1 == Emit([w EXCEPT !.isWaveActive = FALSE, !.enemies = <<>>],
                   "wave:complete", w.waveNumber)
        w2 == removeIncorrectTowers(w1)
        w3 == playerWaveComplete(w2, w.waveNumber)
        w4 == applyWaveBonus(w3, w.waveNumber)
    IN [w4 EXCEPT !.pathTimers = @ + 1]

waveComplete(w) ==
    LET w1 == Emit([w EXCEPT !.isWaveActive = FALSE, !.enemies = <<>>],
                   "wave:complete", w.waveNumber)
        w2 == removeIncorrectTowers(w1)
        w3 == playerWaveComplete(w2, w.waveNumber)
        w4 == applyWaveBonus(w3, w.waveNumber)
    IN [w4 EXCEPT !.waveNumber = @ + 1, !.pathTimers = @ + 1]

(* enemyReachedEnd without the filter of the enemies array *)
enemyReachedEndKept(w, enemy) ==
    LET inactive(e) == IF e.id = enemy.id THEN [e EXCEPT !.active = FALSE] ELSE e
        w1 == Emit([w EXCEPT !.enemies = [i \in DOMAIN @ |-> inactive(@[i])]],
                   "enemy:reached:end", enemy.id)
    IN [loseLife(w1) EXCEPT !.enemiesRemaining = @ - 1]

(* enemy.active = false on the object, which the filter then drops *)
enemyReachedEnd(w, enemy) ==
    LET inactive(e) == IF e.id = enemy.id THEN [e EXCEPT !.active = FALSE] ELSE e
        isOther(e) == e.id # enemy.id
        w1 == Emit([w EXCEPT !.enemies = SelectSeq([i \in DOMAIN @ |-> inactive(@[i])], isOther)],
                   "enemy:reached:end", enemy.id)
    IN [loseLife(w1) EXCEPT !.enemiesRemaining = @ - 1]

(* the for loop over enemies[i]: removing the enemy at i shifts the     *)
(* rest down while i still advances                                     *)
RECURSIVE updateLoop(_, _, _, _)
updateLoop(w, i, deltaTime, activeEnemies) ==
    IF i > Len(w.enemies) THEN [w |-> w, activeEnemies |-> activeEnemies]
    ELSE IF ~w.enemies[i].active THEN updateLoop(w, i + 1, deltaTime, activeEnemies)
    ELSE LET moved == moveEnemy(w.path, w.enemies[i], deltaTime)
             w1 == [w EXCEPT !.enemies[i] = moved.enemy]
         IN IF moved.reachedEnd
            THEN updateLoop(enemyReachedEnd(w1, moved.enemy), i + 1, deltaTime, activeEnemies + 1)
            ELSE updateLoop(Emit(w1, "enemy:move", moved.enemy.id), i + 1, deltaTime,
                            activeEnemies + 1)

updateEnemies(w, deltaTime) ==
    IF ~w.isWaveActive THEN w
    ELSE LET r == updateLoop(w, 1, deltaTime, 0)
         IN IF r.activeEnemies = 0 /\ r.w.enemiesRemaining = 0 /\ ~r.w.spawnInterval.on
            THEN waveComplete(r.w) ELSE r.w

(* defeatEnemy that leaves the enemy active in the enemies array *)
defeatEnemyKept(w, enemy) ==
    LET w1 == Emit(w, "enemy:defeated", <<enemy.id, enemy.reward, enemy.points>>)
        w2 == addScore(addCurrency(w1, enemy.reward), enemy.points)
    IN [w2 EXCEPT !.enemiesRemaining = @ - 1]

defeatEnemy(w, enemy) ==
    LET inactive(e) == IF e.id = enemy.id THEN [e EXCEPT !.active = FALSE] ELSE e
        isOther(e) == e.id # enemy.id
        w1 == Emit([w EXCEPT !.enemies = SelectSeq([i \in DOMAIN @ |-> inactive(@[i])], isOther)],
                   "enemy:defeated",
                   <<enemy.id, enemy.reward, enemy.points>>)
        w2 == addScore(addCurrency(w1, enemy.reward), enemy.points)
    IN [w2 EXCEPT !.enemiesRemaining = @ - 1]

damageEnemy(w, id, damage) ==
    LET found == {i \in DOMAIN w.enemies : w.enemies[i].id = id /\ w.enemies[i].active}
    IN IF found = {} THEN [w EXCEPT !.ret = "false"]
       ELSE LET i == CHOOSE j \in found : TRUE
                w1 == Emit([w EXCEPT !.enemies[i].health = @ - damage], "enemy:damage", <<id, damage>>)
            IN IF w1.enemies[i].health <= 0
               THEN [defeatEnemy(w1, w1.enemies[i]) EXCEPT !.ret = "true"]
               ELSE [w1 EXCEPT !.ret = "false"]

(* ------------------------------------------------------------------ *)
(* CompletionBonusModule.applyEffects and TowerAttacks                 *)
(* ------------------------------------------------------------------ *)
(* BONUS_TYPES[t].multiplier, in hundredths *)
multiplier == [t \in BonusTypes |->
                 CASE t = "DAMAGE" -> 135 [] t = "POINTS" -> 200 [] OTHER -> 175]

(* applyEffects without its grid block *)
applyEffectsNoGrid(w, tower, enemy, basePoints, baseCurrency) ==
    LET one == [t \in BonusTypes |-> [num |-> 1, den |-> 1]]
        times(mult, bonuses, key) ==
            IF key \in DOMAIN bonuses
            THEN [mult EXCEPT ![bonuses[key]] = [num |-> @.num * multiplier[bonuses[key]],
                                                den |-> @.den * 100]]
            ELSE mult
        rowKey == bonusKey("row", <<ToStr(tower.row)>>)
        colKey == bonusKey("column", <<ToStr(tower.col)>>)
        mult == times(times(one, w.rowBonuses, rowKey), w.columnBonuses, colKey)
    IN [damage |-> (tower.damage * mult["DAMAGE"].num) \div mult["DAMAGE"].den,
        points |-> (basePoints * mult["POINTS"].num) \div mult["POINTS"].den,
        currency |-> (baseCurrency * mult["CURRENCY"].num) \div mult["CURRENCY"].den]

(* damageMult, pointsMult and currencyMult start at 1.0 and are         *)
(* multiplied in the row block, the column block and the grid block;    *)
(* they are kept as fractions, and Math.floor of the product is the     *)
(* whole quotient                                                       *)
applyEffects(w, tower, enemy, basePoints, baseCurrency) ==
    LET one == [t \in BonusTypes |-> [num |-> 1, den |-> 1]]
        times(mult, bonuses, key) ==
            IF key \in DOMAIN bonuses
            THEN [mult EXCEPT ![bonuses[key]] = [num |-> @.num * multiplier[bonuses[key]],
                                                den |-> @.den * 100]]
            ELSE mult
        rowKey == bonusKey("row", <<ToStr(tower.row)>>)
        colKey == bonusKey("column", <<ToStr(tower.col)>>)
        gridKey == bonusKey("grid", <<ToStr(tower.row \div Box), ToStr(tower.col \div Box)>>)
        mult == times(times(times(one, w.rowBonuses, rowKey), w.columnBonuses, colKey),
                      w.gridBonuses, gridKey)
    IN [damage |-> (tower.damage * mult["DAMAGE"].num) \div mult["DAMAGE"].den,
        points |-> (basePoints * mult["POINTS"].num) \div mult["POINTS"].den,
        currency |-> (baseCurrency * mult["CURRENCY"].num) \div mult["CURRENCY"].den]

(* the first enemy, in order, among those within range at the least distance *)
findClosestEnemy(tower, es) ==
    LET dist2(e) == (e.x - tower.x) * (e.x - tower.x) + (e.y - tower.y) * (e.y - tower.y)
        inRange == {i \in DOMAIN es : dist2(es[i]) <= tower.range * tower.range}
    IN IF inRange = {} THEN <<>>
       ELSE LET best == CHOOSE i \in inRange :
                            \A j \in inRange : dist2(es[i]) < dist2(es[j])
                                               \/ (dist2(es[i]) = dist2(es[j]) /\ i <= j)
            IN <<es[best]>>

(* findTarget with maxTargetNumber = towerNumber + 3 *)
findTargetWider(tower, es) ==
    IF tower.type = "special" THEN findClosestEnemy(tower, es)
    ELSE LET towerNumber == ParseInt(tower.type)
             matches(enemy) ==
                 LET enemyType == ParseInt(enemy.type)
                 IN IF enemyType # NaN
                    THEN enemyType >= towerNumber /\ enemyType <= towerNumber + 3
                    ELSE enemy.type = "boss"
         IN IF towerNumber = NaN THEN <<>>
            ELSE findClosestEnemy(tower, SelectSeq(es, matches))

findTarget(tower, es) ==
    IF tower.type = "special" THEN findClosestEnemy(tower, es)
    ELSE LET towerNumber == ParseInt(tower.type)
             matches(enemy) ==
                 LET enemyType == ParseInt(enemy.type)
                 IN IF enemyType # NaN
                    THEN enemyType >= towerNumber /\ enemyType <= towerNumber + 2
                    ELSE enemy.type = "boss"
         IN IF towerNumber = NaN THEN <<>>
            ELSE findClosestEnemy(tower, SelectSeq(es, matches))

attackEnemy(w, tower, enemy) ==
    LET basePoints == IF enemy.points # 0 THEN enemy.points ELSE 5
        baseCurrency == IF enemy.reward # 0 THEN enemy.reward ELSE 10
        bonusEffects == applyEffects(w, tower, enemy, basePoints, baseCurrency)
        w1 == damageEnemy(w, enemy.id, bonusEffects.damage)
        isKilled == w1.ret = "true"
    IN Emit(w1, "tower:attack",
            <<tower.id, enemy.id, bonusEffects.damage,
              IF isKilled THEN bonusEffects.points ELSE 0,
              IF isKilled THEN bonusEffects.currency ELSE 0>>)

(* attackSpeed and attackCooldown are in units of 10 microseconds *)
CooldownUnits(deltaTime) == deltaTime * 100

RECURSIVE attackLoop(_, _, _, _)
attackLoop(w, i, es, deltaTime) ==
    IF i > Len(w.towers) THEN w
    ELSE LET tower == w.towers[i]
             cooldown == IF tower.attackCooldown > 0
                         THEN tower.attackCooldown - CooldownUnits(deltaTime)
                         ELSE tower.attackCooldown
             w1 == [w EXCEPT !.towers[i].attackCooldown = cooldown]
             target == findTarget(tower, es)
         IN IF cooldown > 0 \/ target = <<>>
            THEN attackLoop(w1, i + 1, es, deltaTime)
            ELSE attackLoop([attackEnemy(w1, w1.towers[i], target[1])
                                EXCEPT !.towers[i].attackCooldown = tower.attackSpeed],
                            i + 1, es, deltaTime)

updateTowers(w, deltaTime) ==
    IF Len(w.enemies) = 0 THEN w ELSE attackLoop(w, 1, w.enemies, deltaTime)

(* ------------------------------------------------------------------ *)
(* GameLoop.update and the path regeneration timer of waveComplete     *)
(* ------------------------------------------------------------------ *)
update(w, deltaTime) ==
    checkBoardCompletions(checkCompletions(updateTowers(updateEnemies(w, deltaTime), deltaTime)))

(* SudokuBoard's set is cleared in place; the new path goes to          *)
(* EnemyMovement only                                                   *)
regeneratePath(w, seed) ==
    LET newPath == generateEnemyPath(seed)
        w1 == setPath([w EXCEPT !.pathCells = <<>>, !.pathTimers = @ - 1], newPath)
    IN Emit(w1, "path:updated", Null)

(* ------------------------------------------------------------------ *)
(* Inputs                                                              *)
(* ------------------------------------------------------------------ *)
(* the draws of shuffle for the three diagonal boxes *)
DiagNums == <<[i \in 1 .. 9 |-> i], [i \in 1 .. 9 |-> i], [i \in 1 .. 9 |-> i]>>

RunCells(r, a, b) == [i \in 1 .. (b - a + 1) |-> <<r, a + i - 1>>]

AllCells == [i \in 1 .. (N * N) |-> <<(i - 1) \div N, (i - 1) % N>>]

(* a draw of the shuffle of the 81 positions: these cells come first.    *)
(* Rows 0 and 1 and column 0 then lack (0,0) and (1,0), box 0-0 lacks    *)
(* (2,1) as well, and box 0-1 lacks (2,4) only.                          *)
Revealed ==
    RunCells(0, 1, 8) \o RunCells(1, 1, 8)
        \o <<<<2, 0>>, <<3, 0>>, <<5, 0>>, <<6, 0>>, <<7, 0>>, <<8, 0>>>>
        \o <<<<2, 2>>, <<2, 3>>, <<2, 5>>>>
        \o <<<<5, 1>>, <<5, 2>>, <<6, 1>>, <<6, 2>>, <<7, 1>>>>

Positions ==
    LET isRest(c) == c \notin Range(Revealed)
    IN Revealed \o SelectSeq(AllCells, isRest)

(* a path that always draws "right" runs straight along its start row *)
StraightPath(r) == [startRow |-> r, endRow |-> r, draws |-> <<RandDen - 1>>]

PuzzlePathSeed == StraightPath(4)
BoardPathSeeds == {StraightPath(4)}
RegenPathSeeds == {StraightPath(3)}

(* the createTower calls the player makes (kind, row, column): on the    *)
(* board alone, and while waves run                                      *)
BoardPlays ==
    {<<"1", 0, 0>>, <<"2", 0, 0>>, <<"4", 1, 0>>, <<"6", 2, 4>>, <<"1", 3, 4>>,
     <<"special", 0, 1>>, <<"1", 4, 4>>, <<"laser", 3, 4>>}
WavePlays == {<<"special", 3, 1>>, <<"1", 3, 4>>, <<"1", 3, 1>>}
BonusChoices == {"DAMAGE", "CURRENCY"}
DeltaTimes == {2000}

(* ------------------------------------------------------------------ *)
(* Completion episodes: how many unit-completed signals each unit got   *)
(* since the tracker last held it as not complete                       *)
(* ------------------------------------------------------------------ *)
UnitKeys ==
    {bonusKey("row", <<ToStr(i)>>) : i \in Idx}
        \cup {bonusKey("column", <<ToStr(i)>>) : i \in Idx}
        \cup {bonusKey("grid", gridKeyOf(g)) : g \in Range(GridSeq)}

Tracked(w, u) ==
    CASE u[1] = "row" -> ParseInt(u[2]) \in w.completedRows
      [] u[1] = "column" -> ParseInt(u[2]) \in w.completedColumns
      [] OTHER -> <<u[2], u[3]>> \in w.completedGrids

Signals(events, u) ==
    Cardinality({i \in DOMAIN events :
                    events[i].name = "unit:completed" /\ events[i].data = u})

(* const rowBonuses = {} *)
NoBonuses == [k \in {} |-> "DAMAGE"]

Op(op, kind, row, col) == [op |-> op, kind |-> kind, row |-> row, col |-> col]

(* the modules' state after a handler has run *)
Apply(w, op) ==
    /\ board' = w.board
    /\ solution' = w.solution
    /\ fixedCells' = w.fixedCells
    /\ pathCells' = w.pathCells
    /\ difficulty' = w.difficulty
    /\ completedRows' = w.completedRows
    /\ completedColumns' = w.completedColumns
    /\ completedGrids' = w.completedGrids
    /\ rowBonuses' = w.rowBonuses
    /\ columnBonuses' = w.columnBonuses
    /\ gridBonuses' = w.gridBonuses
    /\ modal' = w.modal
    /\ towers' = w.towers
    /\ towerId' = w.towerId
    /\ incorrectTowers' = w.incorrectTowers
    /\ state' = w.state
    /\ path' = w.path
    /\ enemies' = w.enemies
    /\ enemyId' = w.enemyId
    /\ waveNumber' = w.waveNumber
    /\ isWaveActive' = w.isWaveActive
    /\ spawnInterval' = w.spawnInterval
    /\ enemiesRemaining' = w.enemiesRemaining
    /\ pathTimers' = w.pathTimers
    /\ isRunning' = w.isRunning
    /\ isPaused' = w.isPaused
    /\ frames' = w.frames
    /\ checked' = w.checked
    /\ episode' = [u \in UnitKeys |->
                     IF Tracked(w, u) THEN episode[u] + Signals(w.out, u) ELSE 0]
    /\ out' = w.out
    /\ ret' = w.ret
    /\ last' = op

(* ------------------------------------------------------------------ *)
(* Init: the modules as loaded, generateCompleteSolution about to call  *)
(* solveSudoku                                                          *)
(* ------------------------------------------------------------------ *)
Init ==
    /\ solver = [grid |-> fillDiagonal(DiagNums), stack |-> <<>>, mode |-> "call"]
    /\ isInitialized = FALSE
    /\ board = [c \in Cell |-> 0]
    /\ solution = [c \in Cell |-> 0]
    /\ fixedCells = [c \in Cell |-> FALSE]
    /\ pathCells = <<>>
    /\ path = <<>>
    /\ difficulty = "medium"
    /\ completedRows = {}
    /\ completedColumns = {}
    /\ completedGrids = {}
    /\ rowBonuses = NoBonuses
    /\ columnBonuses = NoBonuses
    /\ gridBonuses = NoBonuses
    /\ modal = [active |-> FALSE, unitType |-> "row", unitIndex |-> <<"0">>]
    /\ towers = <<>>
    /\ towerId = 0
    /\ incorrectTowers = {}
    /\ state = [currency |-> StartCurrency, lives |-> StartLives, score |-> 0]
    /\ enemies = <<>>
    /\ enemyId = 0
    /\ waveNumber = 1
    /\ isWaveActive = FALSE
    /\ spawnInterval = NoInterval
    /\ enemiesRemaining = 0
    /\ pathTimers = 0
    /\ isRunning = FALSE
    /\ isPaused = FALSE
    /\ frames = 0
    /\ checked = FALSE
    /\ episode = [u \in UnitKeys |-> 0]
    /\ out = <<>>
    /\ ret = Null
    /\ last = Op("load", "", 0, 0)

(* ------------------------------------------------------------------ *)
(* Actions                                                             *)
(* ------------------------------------------------------------------ *)
(* one step of solveSudoku inside SudokuBoard.init *)
SolveStep ==
    /\ ~isInitialized
    /\ solver.mode \in {"call", "backtrack"}
    /\ solver' = solveStep(solver)
    /\ UNCHANGED <<board, solution, fixedCells, pathCells, difficulty,
                   completedRows, completedColumns, completedGrids,
                   rowBonuses, columnBonuses, gridBonuses, modal,
                   towers, towerId, incorrectTowers, state, path,
                   enemies, enemyId, waveNumber, isWaveActive, spawnInterval,
                   enemiesRemaining, pathTimers, isRunning, isPaused, frames,
                   isInitialized, checked, episode, out, ret, last>>

(* the rest of GameLoop.init: SudokuBoard.init takes the puzzle cut from *)
(* the solution along one path and then draws its own path, which       *)
(* EnemyMovement receives with SUDOKU_GENERATED; GameLoop.start          *)
GameInit(boardSeed) ==
    /\ ~isInitialized
    /\ solver.mode = "solved"
    /\ LET generated == generatePuzzle(difficulty, PuzzlePathSeed, solver.grid, Positions)
           w1 == [World EXCEPT !.board = generated.board,
                               !.solution = generated.solution,
                               !.fixedCells = generated.fixedCells,
                               !.pathCells = generateEnemyPath(boardSeed)]
           w2 == setPath(Emit(w1, "sudoku:generated", Null), w1.pathCells)
           w3 == requestAnimationFrame(
                     Emit([w2 EXCEPT !.isRunning = TRUE, !.isPaused = FALSE], "game:start", Null))
       IN /\ Apply(w3, Op("init", "", boardSeed.startRow, boardSeed.endRow))
          /\ solver' = [solver EXCEPT !.mode = "done"]
          /\ isInitialized' = TRUE

(* the player's clicks reach the board only while the full-screen bonus *)
(* modal is not shown                                                   *)
CreateTower(type, row, col) ==
    /\ isInitialized
    /\ UNCHANGED <<solver, isInitialized>>
    /\ ~modal.active
    /\ LET w == createTower(World, type, row, col)
       IN /\ w.towerId <= MaxTowerId
          /\ Apply(w, Op("createTower", type, row, col))

RemoveTower(id) ==
    /\ isInitialized
    /\ UNCHANGED <<solver, isInitialized>>
    /\ ~modal.active
    /\ \E i \in DOMAIN towers : towers[i].id = id
    /\ Apply(removeTower(World, id), Op("removeTower", "", id, 0))

UpgradeTower(id) ==
    /\ isInitialized
    /\ UNCHANGED <<solver, isInitialized>>
    /\ ~modal.active
    /\ \E i \in DOMAIN towers : towers[i].id = id /\ towers[i].level < MaxLevel
    /\ Apply(upgradeTower(World, id), Op("upgradeTower", "", id, 0))

(* a click on one of the three buttons of the bonus modal *)
ChooseBonus(bonusType) ==
    /\ isInitialized
    /\ UNCHANGED <<solver, isInitialized>>
    /\ modal.active
    /\ LET w1 == applyBonus(World, modal.unitType, modal.unitIndex, bonusType)
       IN Apply(resume([w1 EXCEPT !.modal.active = FALSE]), Op("chooseBonus", bonusType, 0, 0))

StartWave ==
    /\ isInitialized
    /\ UNCHANGED <<solver, isInitialized>>
    /\ ~modal.active
    /\ ~isWaveActive
    /\ Apply(startWave(World), Op("startWave", "", 0, 0))

(* the setInterval callback comes due once per period of elapsed time;  *)
(* the frames advance the time                                          *)
SpawnTimer(u) ==
    /\ isInitialized
    /\ UNCHANGED <<solver, isInitialized>>
    /\ spawnInterval.on
    /\ spawnInterval.elapsed >= spawnPeriod(waveNumber)
    /\ spawnInterval.enemiesSpawned >= spawnInterval.enemyCount \/ enemyId < MaxEnemyId
    /\ Apply(spawnTick(World, u), Op("spawnTick", "", spawnInterval.enemiesSpawned, 0))

(* gameLoop's lastUpdateTime after the frame, kept as the parity of the *)
(* frames in a row: every frame changes it                              *)
lastUpdateTime(l) == IF l.op = "update" THEN 1 - l.col ELSE 0

(* one animation frame of the running, unpaused loop, deltaTime after   *)
(* the frame before; interval callbacks that are due run first. The     *)
(* callback ends by requesting the next frame                           *)
Tick(deltaTime) ==
    /\ isInitialized
    /\ UNCHANGED <<solver, isInitialized>>
    /\ frames > 0
    /\ isRunning /\ ~isPaused
    /\ ~(spawnInterval.on /\ spawnInterval.elapsed >= spawnPeriod(waveNumber))
    /\ Apply(requestAnimationFrame(
                 update(advanceTimers(frameCallback(World), deltaTime), deltaTime)),
             Op("update", "", deltaTime, lastUpdateTime(last)))

(* a pending callback of the stopped or paused loop: gameLoop returns   *)
(* at once and requests no frame                                        *)
IdleFrame ==
    /\ isInitialized
    /\ UNCHANGED <<solver, isInitialized>>
    /\ frames > 0
    /\ ~isRunning \/ isPaused
    /\ Apply(frameCallback(World), Op("gameLoop", "", 0, 0))

PathRegenTimer(seed) ==
    /\ isInitialized
    /\ UNCHANGED <<solver, isInitialized>>
    /\ pathTimers > 0
    /\ Apply([regeneratePath(World, seed) EXCEPT !.checked = FALSE],
             Op("regeneratePath", "", seed.startRow, seed.endRow))

(* the player at the board, the loop running, no wave started *)
NextBoard ==
    \/ SolveStep
    \/ \E boardSeed \in BoardPathSeeds : GameInit(boardSeed)
    \/ \E play \in BoardPlays : CreateTower(play[1], play[2], play[3])
    \/ \E id \in 1 .. MaxTowerId : RemoveTower(id)
    \/ \E bonusType \in BonusChoices : ChooseBonus(bonusType)
    \/ \E deltaTime \in DeltaTimes : Tick(deltaTime)

SpecBoard == Init /\ [][NextBoard]_vars

Next ==
    \/ SolveStep
    \/ \E boardSeed \in BoardPathSeeds : GameInit(boardSeed)
    \/ \E play \in WavePlays : CreateTower(play[1], play[2], play[3])
    \/ \E id \in 1 .. MaxTowerId : UpgradeTower(id)
    \/ StartWave
    \/ \E u \in {0, RandDen - 1} : SpawnTimer(u)
    \/ \E deltaTime \in DeltaTimes : Tick(deltaTime)
    \/ \E seed \in RegenPathSeeds : PathRegenTimer(seed)

Spec == Init /\ [][Next]_vars

(* ------------------------------------------------------------------ *)
(* The spawn interval of a wave while the loop is paused: the timer     *)
(* keeps firing, the enemies it creates wait at the start of the path   *)
(* ------------------------------------------------------------------ *)
MaxWave == 3
WaveNumbers == 0 .. MaxWave

(* the pause button *)
Pause ==
    /\ isInitialized
    /\ UNCHANGED <<solver, isInitialized>>
    /\ ~isPaused
    /\ Apply(pause(World), Op("pause", "", 0, 0))

(* EnemyWaves.setWaveNumber has no caller in the program; it is called  *)
(* between waves                                                        *)
SetWaveNumber(num) ==
    /\ isInitialized
    /\ UNCHANGED <<solver, isInitialized>>
    /\ ~isWaveActive
    /\ waveNumber = 1
    /\ Apply(setWaveNumber(World, num), Op("setWaveNumber", "", num, 0))

(* the start-wave button, whose handler calls startWave whether or not  *)
(* a wave is in progress when EnemiesModule has no isWaveInProgress;    *)
(* before GameLoop.init no path has been set                            *)
StartWaveCall ==
    /\ isInitialized \/ (solver.mode = "call" /\ solver.stack = <<>>)
    /\ UNCHANGED <<solver, isInitialized>>
    /\ Apply(startWave(World), Op("startWave", "", 0, 0))

(* time passes without a frame *)
Elapse(deltaTime) ==
    /\ isInitialized
    /\ UNCHANGED <<solver, isInitialized>>
    /\ isPaused
    /\ spawnInterval.on
    /\ spawnInterval.elapsed < spawnPeriod(waveNumber)
    /\ Apply(advanceTimers(World, deltaTime), Op("elapse", "", deltaTime, 0))

(* the setInterval callback of a wave of at most MaxWave *)
SpawnCallback(u) ==
    /\ isInitialized
    /\ UNCHANGED <<solver, isInitialized>>
    /\ spawnInterval.on
    /\ spawnInterval.elapsed >= spawnPeriod(waveNumber)
    /\ Apply(spawnTick(World, u), Op("spawnTick", "", spawnInterval.enemiesSpawned, 0))

NextSpawn ==
    \/ SolveStep
    \/ \E boardSeed \in BoardPathSeeds : GameInit(boardSeed)
    \/ Pause
    \/ \E num \in WaveNumbers : SetWaveNumber(num)
    \/ StartWaveCall
    \/ \E deltaTime \in DeltaTimes : Elapse(deltaTime)
    \/ \E u \in {0, RandDen - 1} : SpawnCallback(u)

SpecSpawn == Init /\ [][NextSpawn]_vars

(* ------------------------------------------------------------------ *)
(* GameLoop.init with a difficulty option, over paths generatePuzzle    *)
(* can draw                                                             *)
(* ------------------------------------------------------------------ *)
Difficulties == {"easy", "medium", "hard"}

(* always the first possible move: up while it can, else down, else     *)
(* right, so that the path fills columns 0 to 7                         *)
SnakePath == [startRow |-> 8, endRow |-> 8, draws |-> <<0>>]

(* first and last possible move in turn *)
ZigzagPath == [startRow |-> 4, endRow |-> 0, draws |-> <<0, RandDen - 1>>]

PuzzlePathSeeds == {StraightPath(4), ZigzagPath, SnakePath}

GameInitWith(newDifficulty, pathSeed, boardSeed) ==
    /\ ~isInitialized
    /\ solver.mode = "solved"
    /\ LET generated == generatePuzzle(newDifficulty, pathSeed, solver.grid, Positions)
           w1 == [World EXCEPT !.difficulty = newDifficulty,
                               !.board = generated.board,
                               !.solution = generated.solution,
                               !.fixedCells = generated.fixedCells,
                               !.pathCells = generateEnemyPath(boardSeed)]
           w2 == setPath(Emit(w1, "sudoku:generated", Null), w1.pathCells)
           w3 == requestAnimationFrame(
                     Emit([w2 EXCEPT !.isRunning = TRUE, !.isPaused = FALSE], "game:start", Null))
       IN /\ Apply(w3, Op("init", newDifficulty, boardSeed.startRow, boardSeed.endRow))
          /\ solver' = [solver EXCEPT !.mode = "done"]
          /\ isInitialized' = TRUE

NextPuzzle ==
    \/ SolveStep
    \/ \E newDifficulty \in Difficulties :
          \E pathSeed \in PuzzlePathSeeds :
              \E boardSeed \in BoardPathSeeds \cup RegenPathSeeds :
                  GameInitWith(newDifficulty, pathSeed, boardSeed)

SpecPuzzle == Init /\ [][NextPuzzle]_vars

(* the steps of Tick and of SpawnTimer as the handler call they record: *)
(* Tick alone records "update" and SpawnTimer alone "spawnTick", under  *)
(* their guards, and each records a call that differs from the one      *)
(* before it (the frame's lastUpdateTime, the callback's enemiesSpawned) *)
Frame ==
    /\ isInitialized
    /\ frames > 0
    /\ isRunning /\ ~isPaused
    /\ ~(spawnInterval.on /\ spawnInterval.elapsed >= spawnPeriod(waveNumber))
    /\ \E deltaTime \in DeltaTimes :
          last' = Op("update", "", deltaTime, lastUpdateTime(last))

SpawnCall ==
    /\ isInitialized
    /\ spawnInterval.on
    /\ spawnInterval.elapsed >= spawnPeriod(waveNumber)
    /\ spawnInterval.enemiesSpawned >= spawnInterval.enemyCount \/ enemyId < MaxEnemyId
    /\ last' = Op("spawnTick", "", spawnInterval.enemiesSpawned, 0)

(* requestAnimationFrame keeps calling gameLoop while the loop runs    *)
(* unpaused, and setInterval keeps calling the spawn callback until it *)
(* is cleared: weak fairness of Tick and of SpawnTimer                 *)
Fairness ==
    /\ WF_last(Frame)
    /\ WF_last(SpawnCall)

LiveSpec == Init /\ [][Next]_vars /\ Fairness

(* a wave fought by a tower that stands in a completed row holding a    *)
(* bonus: the path runs along row 2, two cells from the tower at (0,0)  *)
BonusPathSeeds == {StraightPath(2)}
BonusPlays == {<<"1", 0, 0>>}

NextBonus ==
    \/ SolveStep
    \/ \E boardSeed \in BonusPathSeeds : GameInit(boardSeed)
    \/ \E play \in BonusPlays : CreateTower(play[1], play[2], play[3])
    \/ \E bonusType \in BonusTypes : ChooseBonus(bonusType)
    \/ StartWave
    \/ SpawnTimer(0)
    \/ \E deltaTime \in DeltaTimes : Tick(deltaTime)

SpecBonus == Init /\ [][NextBonus]_vars

(* ------------------------------------------------------------------ *)
(* Properties                                                          *)
(* ------------------------------------------------------------------ *)

(* C1: in every state reached by placing towers, removing towers, the    *)
(* wave-end removal of incorrect towers and the regeneration of the path *)
(* between waves, no row, column or 3x3 box holds the same nonzero value *)
(* twice among its cells outside the board's path set.                   *)
C1_NoDuplicateInUnit ==
    LET onPath == Range(pathCells)
    IN \A unit \in Units :
          \A a \in unit :
             \/ board[a] = 0
             \/ a \in onPath
             \/ \A b \in unit : b = a \/ b \in onPath \/ board[b] # board[a]

(* a number tower is placed in the second wave, after the wave-end       *)
(* removal and the regeneration of the path                              *)
C1_Witness ==
    /\ last.op = "createTower" /\ ret = "tower"
    /\ waveNumber > 1 /\ pathCells = <<>> /\ pathTimers = 0
    /\ board[<<last.row, last.col>>] = ParseInt(last.kind)
    /\ state.score > 0

(* C2: a createTower(kind,row,col) whose number is already present in    *)
(* the same row, column or box adds no tower, debits no currency and     *)
(* leaves the board unchanged.                                           *)
C2_ConflictNoMutation ==
    [][(/\ last'.op = "createTower"
        /\ LET value == ParseInt(last'.kind)
           IN /\ value \in Digits
              /\ \E c \in Cell :
                    /\ c # <<last'.row, last'.col>>
                    /\ board[c] = value
                    /\ \/ c[1] = last'.row
                       \/ c[2] = last'.col
                       \/ /\ c[1] \div Box = last'.row \div Box
                          /\ c[2] \div Box = last'.col \div Box)
       => (towers' = towers /\ state'.currency = state.currency /\ board' = board)]_vars

(* C3: createTower(kind,row,col) returns null and leaves the towers, the *)
(* currency, the board and the incorrect-tower set unchanged whenever    *)
(* the kind is unknown, the currency is below the kind's cost, the cell  *)
(* is fixed, the cell is in the board's path set, or a tower occupies    *)
(* the cell.                                                             *)
C3_RejectedNoMutation ==
    [][(/\ last'.op = "createTower"
        /\ LET cell == <<last'.row, last'.col>>
           IN \/ last'.kind \notin DOMAIN towerTypes
              \/ state.currency < towerTypes[last'.kind].cost
              \/ fixedCells[cell]
              \/ cell \in Range(pathCells)
              \/ \E i \in DOMAIN towers : <<towers[i].row, towers[i].col>> = cell)
       => (/\ ret' = Null
           /\ towers' = towers /\ state'.currency = state.currency
           /\ board' = board /\ incorrectTowers' = incorrectTowers)]_vars

(* createTower has been refused on a cell that holds a tower *)
C3_Witness ==
    /\ last.op = "createTower" /\ ret = Null
    /\ last.kind \in DOMAIN towerTypes
    /\ state.currency >= towerTypes[last.kind].cost
    /\ \E i \in DOMAIN towers : towers[i].row = last.row /\ towers[i].col = last.col

(* C4: whenever createTower succeeds for a numeric kind at (row,col) the *)
(* board holds that number at (row,col); and if the number differs from  *)
(* the solution there, the tower exists with its correctness flag false  *)
(* and its id in the incorrect-tower set.                                *)
C4_BoardHoldsNumber ==
    (last.op = "createTower" /\ ret = "tower" /\ ParseInt(last.kind) \in Digits)
    => /\ board[<<last.row, last.col>>] = ParseInt(last.kind)
       /\ ParseInt(last.kind) # solution[<<last.row, last.col>>]
          => \E i \in DOMAIN towers :
                /\ towers[i].row = last.row /\ towers[i].col = last.col
                /\ ~towers[i].isCorrect
                /\ towers[i].id \in incorrectTowers

(* C5: no tower stands on a cell of the path the enemies currently       *)
(* follow, also after the path has been regenerated between waves, and   *)
(* createTower on a cell of that path is rejected.                       *)
C5_NoTowerOnPath ==
    /\ \A i \in DOMAIN towers : <<towers[i].row, towers[i].col>> \notin Range(path)
    /\ \A type \in DOMAIN towerTypes, cell \in Range(path) :
           createTower(World, type, cell[1], cell[2]).ret = Null

(* C6: spendCurrency(amount) with amount above the currency fails and    *)
(* leaves the currency as it is, and the currency is never negative      *)
(* through placements, upgrades, kills, wave bonuses and refunds.        *)
C6_CurrencyNeverNegative ==
    /\ state.currency >= 0
    /\ \A type \in DOMAIN towerTypes, level \in 0 .. MaxLevel :
           LET amount == IF level = 0 THEN towerTypes[type].cost
                         ELSE getUpgradeCost(type, level)
           IN amount > state.currency
              => /\ spendCurrency(World, amount).ret = "false"
                 /\ spendCurrency(World, amount).state.currency = state.currency

(* an upgrade has been refused for lack of currency after an enemy has   *)
(* been killed                                                           *)
C6_Witness ==
    /\ last.op = "upgradeTower" /\ ret = "false"
    /\ \E i \in DOMAIN towers :
          /\ towers[i].id = last.row
          /\ getUpgradeCost(towers[i].type, towers[i].level) > state.currency
    /\ state.score > 0

(* C7: when a row holds a bonus and one of its non-path cells is cleared *)
(* to 0, the handler's checkBoardCompletions deletes the row's binding,  *)
(* and applyEffects gives a tower of that row what it gives without any  *)
(* row binding.                                                          *)
C7_RowBonusDeleted ==
    [][\A row \in Idx :
          (/\ bonusKey("row", <<ToStr(row)>>) \in DOMAIN rowBonuses
           /\ \E col \in Idx :
                 /\ <<row, col>> \notin Range(pathCells)
                 /\ board[<<row, col>>] # 0 /\ board'[<<row, col>>] = 0)
          => /\ bonusKey("row", <<ToStr(row)>>) \notin DOMAIN rowBonuses'
             /\ \A col \in Idx :
                   LET tower == [row |-> row, col |-> col, damage |-> 100]
                       after == [rowBonuses |-> rowBonuses',
                                 columnBonuses |-> columnBonuses',
                                 gridBonuses |-> gridBonuses']
                       bare == [after EXCEPT !.rowBonuses = NoBonuses]
                   IN applyEffects(after, tower, Null, 5, 10)
                          = applyEffects(bare, tower, Null, 5, 10)]_vars

(* removing a tower has taken a row's binding away *)
C7_Witness ==
    /\ last.op = "removeTower"
    /\ \E i \in DOMAIN out :
          /\ out[i].name = "removeVisualEffect"
          /\ out[i].data[1] = "row"
    /\ rowBonuses = NoBonuses

(* C8: after every checkBoardCompletions each binding, of a row, a       *)
(* column or a box, belongs to a unit the completion tracker reports     *)
(* complete.                                                             *)
C8_BindingsOfCompleteUnits ==
    (\/ last.op \in {"removeTower", "update"}
     \/ last.op = "createTower" /\ ret = "tower")
    => /\ \A k \in DOMAIN rowBonuses : ParseInt(k[2]) \in completedRows
       /\ \A k \in DOMAIN columnBonuses : ParseInt(k[2]) \in completedColumns
       /\ \A k \in DOMAIN gridBonuses : <<k[2], k[3]>> \in completedGrids

(* C9: a second checkCompletions with no change of board or path in      *)
(* between leaves the three completed sets as they are and signals no    *)
(* unit, and a unit is signalled once while it stays complete.           *)
C9_SignalledOncePerEpisode ==
    /\ \A u \in UnitKeys : episode[u] <= 1
    /\ LET first == checkCompletions(World)
           second == checkCompletions([first EXCEPT !.out = <<>>])
       IN /\ second.completedRows = first.completedRows
          /\ second.completedColumns = first.completedColumns
          /\ second.completedGrids = first.completedGrids
          /\ \A i \in DOMAIN second.out : second.out[i].name # "unit:completed"

(* row 0 was signalled, and checkCompletions has run again for a tower   *)
(* placed in row 1 while row 0 stayed complete                           *)
C9_Witness ==
    /\ last.op = "createTower" /\ ret = "tower" /\ last.row = 1
    /\ episode[bonusKey("row", <<"0">>)] = 1
    /\ 0 \in completedRows

(* C10 as stated: after checkCompletions a row, column or box is in the  *)
(* completed sets if and only if all its non-path cells are nonzero and  *)
(* pairwise distinct, whatever number of its cells lie on the path.      *)
C10_MemberIffComplete ==
    LET nonPath(cells) == cells \ Range(pathCells)
        full(cells) == /\ \A c \in nonPath(cells) : board[c] # 0
                       /\ \A a, b \in nonPath(cells) : a # b => board[a] # board[b]
    IN checked =>
          /\ \A row \in Idx : row \in completedRows <=> full(RowCells(row))
          /\ \A col \in Idx : col \in completedColumns <=> full(ColCells(col))
          /\ \A g \in Range(GridSeq) :
                gridKeyOf(g) \in completedGrids <=> full(BoxCells(g[1] * Box, g[2] * Box))

(* C10 amended: after checkCompletions a row, column or box with at      *)
(* least one non-path cell is in the completed sets if and only if all   *)
(* its non-path cells are nonzero and pairwise distinct.                 *)
C10_MemberIffCompleteNonEmpty ==
    LET nonPath(cells) == cells \ Range(pathCells)
        full(cells) == /\ \A c \in nonPath(cells) : board[c] # 0
                       /\ \A a, b \in nonPath(cells) : a # b => board[a] # board[b]
        agrees(member, cells) == nonPath(cells) # {} => (member <=> full(cells))
    IN checked =>
          /\ \A row \in Idx : agrees(row \in completedRows, RowCells(row))
          /\ \A col \in Idx : agrees(col \in completedColumns, ColCells(col))
          /\ \A g \in Range(GridSeq) :
                agrees(gridKeyOf(g) \in completedGrids, BoxCells(g[1] * Box, g[2] * Box))

(* column 0, which has a cell on the path, has become complete *)
C10_Witness ==
    /\ checked
    /\ 0 \in completedColumns
    /\ <<4, 0>> \in Range(pathCells)
    /\ 4 \notin completedRows

HasEvent(events, name) == \E i \in DOMAIN events : events[i].name = name

(* C11: in every frame that does not complete a wave, the score and the  *)
(* currency credited to the player equal the sums of the points and of   *)
(* the currency reported by the tower-attack events of that frame (the   *)
(* enemy's points and reward after applyEffects for a kill, 0 for an     *)
(* attack that does not kill).                                           *)
C11_KillCreditEqualsReported ==
    [][(last'.op = "update" /\ ~HasEvent(out', "wave:complete"))
          => LET isAttack(e) == e.name = "tower:attack"
                 attacks == SelectSeq(out', isAttack)
                 ReportedBy(field) ==
                     SumSeq([i \in DOMAIN attacks |-> attacks[i].data[field]])
             IN /\ state'.currency - state.currency = ReportedBy(5)
                /\ state'.score - state.score = ReportedBy(4)]_vars

(* ------------------------------------------------------------------ *)
(* TowerAttacks.update on its own: one tower beside the path and        *)
(* enemies of a late wave standing on path cells                        *)
(* ------------------------------------------------------------------ *)
MaxTargets == 2
TargetWave == 15
TargetTowerKinds == {"1", "4"}
TargetEnemyKinds == {"1", "3", "4", "7", "boss"}
(* indices into the path along row 4; the tower stands at (3,4) *)
TargetPlaces == {2, 4, 6, 7}

(* the modules as loaded, before GameLoop.init *)
Loaded ==
    [board |-> [c \in Cell |-> 0], solution |-> [c \in Cell |-> 0],
     fixedCells |-> [c \in Cell |-> FALSE],
     pathCells |-> <<>>, difficulty |-> "medium",
     completedRows |-> {}, completedColumns |-> {}, completedGrids |-> {},
     rowBonuses |-> NoBonuses, columnBonuses |-> NoBonuses,
     gridBonuses |-> NoBonuses,
     modal |-> [active |-> FALSE, unitType |-> "row", unitIndex |-> <<"0">>],
     towers |-> <<>>, towerId |-> 0, incorrectTowers |-> {},
     state |-> [currency |-> StartCurrency, lives |-> StartLives, score |-> 0],
     path |-> <<>>,
     enemies |-> <<>>, enemyId |-> 0, waveNumber |-> 1,
     isWaveActive |-> FALSE, spawnInterval |-> NoInterval,
     enemiesRemaining |-> 0, pathTimers |-> 0,
     isRunning |-> FALSE, isPaused |-> FALSE, frames |-> 0,
     checked |-> FALSE, out |-> <<>>, ret |-> Null]

(* the variables hold the world w; no handler has run on it yet *)
Setup(w) ==
    /\ solver = [grid |-> fillDiagonal(DiagNums), stack |-> <<>>, mode |-> "call"]
    /\ isInitialized = FALSE
    /\ board = w.board
    /\ solution = w.solution
    /\ fixedCells = w.fixedCells
    /\ pathCells = w.pathCells
    /\ difficulty = w.difficulty
    /\ completedRows = w.completedRows
    /\ completedColumns = w.completedColumns
    /\ completedGrids = w.completedGrids
    /\ rowBonuses = w.rowBonuses
    /\ columnBonuses = w.columnBonuses
    /\ gridBonuses = w.gridBonuses
    /\ modal = w.modal
    /\ towers = w.towers
    /\ towerId = w.towerId
    /\ incorrectTowers = w.incorrectTowers
    /\ state = w.state
    /\ path = w.path
    /\ enemies = w.enemies
    /\ enemyId = w.enemyId
    /\ waveNumber = w.waveNumber
    /\ isWaveActive = w.isWaveActive
    /\ spawnInterval = w.spawnInterval
    /\ enemiesRemaining = w.enemiesRemaining
    /\ pathTimers = w.pathTimers
    /\ isRunning = w.isRunning
    /\ isPaused = w.isPaused
    /\ frames = w.frames
    /\ checked = w.checked
    /\ episode = [u \in UnitKeys |-> 0]
    /\ out = <<>>
    /\ ret = Null
    /\ last = Op("load", "", 0, 0)

(* createEnemy for each kind in turn *)
RECURSIVE createEach(_, _)
createEach(w, kinds) ==
    IF kinds = <<>> THEN w ELSE createEach(createEnemy(w, Head(kinds)), Tail(kinds))

(* the enemy as moveEnemy leaves it on entering path cell number index *)
standingAt(p, enemy, index) ==
    [enemy EXCEPT !.pathIndex = index, !.progress = 0,
                  !.x = CellCenter(p[index + 1]).x, !.y = CellCenter(p[index + 1]).y]

(* a tower of the kind at (3,4), the path along row 4, and one enemy of *)
(* each of the kinds standing at the places                             *)
TargetWorld(type, kinds, places) ==
    LET w1 == setPath(Loaded, generateEnemyPath(StraightPath(4)))
        w2 == createTower([w1 EXCEPT !.waveNumber = TargetWave, !.isWaveActive = TRUE],
                          type, 3, 4)
        w3 == createEach(w2, kinds)
    IN [w3 EXCEPT !.enemies = [i \in DOMAIN @ |-> standingAt(w3.path, @[i], places[i])],
                  !.enemiesRemaining = Len(kinds),
                  !.out = <<>>, !.ret = Null]

InitTarget ==
    \E type \in TargetTowerKinds :
        \E n \in 1 .. MaxTargets :
            \E kinds \in [1 .. n -> TargetEnemyKinds] :
                \E places \in [1 .. n -> TargetPlaces] :
                    Setup(TargetWorld(type, kinds, places))

(* TowerAttacks.update, called by TowersModule.update *)
TowersUpdate(deltaTime) ==
    /\ UNCHANGED <<solver, isInitialized>>
    /\ Apply(updateTowers(World, deltaTime), Op("towersUpdate", "", deltaTime, 0))

SpecTarget == InitTarget /\ [][\E deltaTime \in DeltaTimes : TowersUpdate(deltaTime)]_vars

Dist2(tower, enemy) ==
    (enemy.x - tower.x) * (enemy.x - tower.x) + (enemy.y - tower.y) * (enemy.y - tower.y)

InRange(tower, enemy) == Dist2(tower, enemy) <= tower.range * tower.range

NumericTowers(ts) == {i \in DOMAIN ts : ParseInt(ts[i].type) # NaN}

(* C12: when TowerAttacks.update runs, every attack of a tower of        *)
(* numeric kind N is on an enemy within the tower's range whose kind is  *)
(* a number in [N, N+2] or boss and than which no such enemy is nearer,  *)
(* and a tower with no such enemy in range does not attack.              *)
C12_TargetEligibleNearest ==
    [][last'.op = "towersUpdate"
          => \A t \in NumericTowers(towers) :
                LET tower == towers[t]
                    EligibleKinds ==
                        {ToStr(k) : k \in ParseInt(tower.type) .. (ParseInt(tower.type) + 2)}
                            \cup {"boss"}
                    cand == {i \in DOMAIN enemies :
                                /\ InRange(tower, enemies[i])
                                /\ enemies[i].type \in EligibleKinds}
                    hits == {j \in DOMAIN out' :
                                /\ out'[j].name = "tower:attack"
                                /\ out'[j].data[1] = tower.id}
                IN /\ cand = {} => hits = {}
                   /\ \A j \in hits :
                         \E i \in cand :
                             /\ enemies[i].id = out'[j].data[2]
                             /\ \A k \in cand :
                                   Dist2(tower, enemies[i]) <= Dist2(tower, enemies[k])]_vars

(* a tower of kind N has let an enemy of kind N+3 or higher stand in     *)
(* range without attacking                                               *)
C12_Witness ==
    /\ last.op = "towersUpdate"
    /\ ~HasEvent(out, "tower:attack")
    /\ \E t \in NumericTowers(towers) :
          \E i \in DOMAIN enemies :
              /\ InRange(towers[t], enemies[i])
              /\ enemies[i].type # "boss"
              /\ ParseInt(enemies[i].type) >= ParseInt(towers[t].type) + 3

(* C13: in the frame that completes wave w, the currency credited to    *)
(* the player beyond the refunds for incorrect towers is exactly        *)
(* floor(20*w*(1+0.1*(w-1))) and the score credited is exactly          *)
(* floor(20*w*2*(1+0.1*(w-1))).                                         *)
C13_WaveBonusExact ==
    [][HasEvent(out', "wave:complete")
          => /\ state'.currency - state.currency
                  - SumSeq([i \in DOMAIN towers |->
                              IF towers[i].id \in incorrectTowers
                              THEN refundOf(towers[i]) ELSE 0])
                  = (20 * waveNumber * (10 + (waveNumber - 1))) \div 10
             /\ state'.score - state.score
                  = (20 * waveNumber * 2 * (10 + (waveNumber - 1))) \div 10]_vars

(* the events of the name among those a handler emitted *)
EventsNamed(events, name) == {i \in DOMAIN events : events[i].name = name}

(* the active wave's unspawned enemies fit under the cap on enemy ids *)
WaveFits ==
    /\ isWaveActive
    /\ spawnInterval.on
          => enemyId + spawnInterval.enemyCount - spawnInterval.enemiesSpawned <= MaxEnemyId

(* wave-complete is emitted by a frame only for the active wave, once,  *)
(* with that wave's number, when every enemy of the wave has been       *)
(* spawned and removed; the wave number is then one higher and no wave  *)
(* is active                                                            *)
WaveCompleteInOrder ==
    /\ [](isWaveActive
            => enemiesRemaining
                 = IF spawnInterval.on
                   THEN spawnInterval.enemyCount - spawnInterval.enemiesSpawned + Len(enemies)
                   ELSE Len(enemies))
    /\ [][HasEvent(out', "wave:complete")
            => /\ isWaveActive /\ ~isWaveActive'
               /\ ~spawnInterval.on /\ enemiesRemaining = 0 /\ enemies = <<>>
               /\ Cardinality(EventsNamed(out', "wave:complete")) = 1
               /\ \A i \in EventsNamed(out', "wave:complete") : out'[i].data = waveNumber
               /\ waveNumber' = waveNumber + 1]_vars
    /\ [][(isWaveActive /\ ~isWaveActive') => HasEvent(out', "wave:complete")]_vars

C15_SpawnsExactlyEnemyCount ==
    /\ [](spawnInterval.on
            => /\ spawnInterval.enemyCount = 6 + 3 * (waveNumber - 1)
               /\ spawnInterval.enemiesSpawned <= spawnInterval.enemyCount
               /\ enemyId = spawnInterval.enemiesSpawned)
    /\ []((isWaveActive /\ ~spawnInterval.on) => enemyId = 6 + 3 * (waveNumber - 1))
    /\ [][HasEvent(out', "wave:start")
            => \A i \in EventsNamed(out', "wave:start") :
                  out'[i].data = <<waveNumber, 6 + 3 * (waveNumber - 1)>>]_vars
    /\ [][(last'.op = "spawnTick" /\ spawnInterval.on)
            => IF spawnInterval.enemiesSpawned < spawnInterval.enemyCount
               THEN /\ Len(enemies') = Len(enemies) + 1
                    /\ enemyId' = enemyId + 1
                    /\ spawnInterval'.on
               ELSE /\ enemies' = enemies
                    /\ enemyId' = enemyId
                    /\ ~spawnInterval'.on]_vars

(* wave 2 has spawned its 9 enemies and its timer is cleared *)
C15_Witness ==
    /\ last.op = "spawnTick"
    /\ waveNumber = 2
    /\ isWaveActive /\ ~spawnInterval.on
    /\ enemyId = 9

(* C16: in a wave whose number is divisible by 3, the spawn of          *)
(* zero-based index i is a boss if i >= 0.9 * enemyCount and a non-boss *)
(* kind unlocked for the wave otherwise (in wave 3, of 12 enemies, the  *)
(* spawn of index 11 and no other); in any other wave every spawn is a  *)
(* non-boss kind unlocked for the wave.                                 *)
C16_BossInLastTenth ==
    [][(last'.op = "spawnTick" /\ Len(enemies') = Len(enemies) + 1)
          => LET i == spawnInterval.enemiesSpawned
                 kind == enemies'[Len(enemies')].type
                 UnlockedKinds(wave) == {ToStr(k) : k \in 1 .. Min(9, (wave + 1) \div 2)}
             IN /\ IF waveNumber % 3 = 0 /\ i * 10 >= spawnInterval.enemyCount * 9
                   THEN kind = "boss"
                   ELSE kind \in UnlockedKinds(waveNumber)
                /\ waveNumber = 3
                     => /\ spawnInterval.enemyCount = 12
                        /\ kind = "boss" <=> i = 11]_vars

(* the twelfth spawn of wave 3 has been made *)
C16_Witness ==
    /\ last.op = "spawnTick"
    /\ waveNumber = 3
    /\ Len(enemies) = 12
    /\ enemies[12].type = "boss"
    /\ enemies[11].type = "2"

(* C17: startWave called while a wave is active, or while the path is   *)
(* empty, leaves the wave number, the active flag, the remaining-enemy  *)
(* counter, the live enemies and the spawn timer as they were and emits *)
(* no wave-started event.                                               *)
C17_StartWaveNoOp ==
    [][(last'.op = "startWave" /\ (isWaveActive \/ Len(path) = 0))
          => /\ waveNumber' = waveNumber
             /\ isWaveActive' = isWaveActive
             /\ enemiesRemaining' = enemiesRemaining
             /\ enemies' = enemies
             /\ spawnInterval' = spawnInterval
             /\ ~HasEvent(out', "wave:start")]_vars

(* startWave has returned at once during a wave with enemies alive and  *)
(* the timer running                                                    *)
C17_Witness ==
    /\ last.op = "startWave"
    /\ out = <<>>
    /\ isWaveActive
    /\ spawnInterval.on
    /\ spawnInterval.enemiesSpawned > 0
    /\ Len(enemies) > 0

(* C18: after the frame that emits wave-complete, no tower flagged      *)
(* incorrect is in the tower registry, the set of incorrect towers is   *)
(* empty, and every tower the sweep removed has left the registry and   *)
(* its board cell 0.                                                    *)
C18_SweepRemovesIncorrect ==
    [][HasEvent(out', "wave:complete")
          => /\ \A i \in DOMAIN towers' : towers'[i].isCorrect
             /\ incorrectTowers' = {}
             /\ \A i \in DOMAIN towers :
                   (towers[i].id \in incorrectTowers \/ ~towers[i].isCorrect)
                      => /\ \A j \in DOMAIN towers' : towers'[j].id # towers[i].id
                         /\ board'[<<towers[i].row, towers[i].col>>] = 0]_vars

(* a wave has ended and the sweep has removed a tower *)
C18_Witness ==
    /\ last.op = "update"
    /\ HasEvent(out, "wave:complete")
    /\ HasEvent(out, "tower:removed")
    /\ incorrectTowers = {}

(* C19: in the frame that completes wave w, where removeIncorrectTowers *)
(* runs, the currency credited beyond the two wave bonuses is exactly   *)
(* the sum, over the tracked incorrect towers, of floor(cost*0.5) +     *)
(* floor(floor(cost*0.5)*(level-1)*0.75); a level-1 tower of base cost  *)
(* 30 is refunded 15.                                                   *)
C19_RefundIsHalfCost ==
    /\ [][HasEvent(out', "wave:complete")
            => LET HalfCost(tower) == towerTypes[tower.type].cost \div 2
                   ClaimedRefund(tower) ==
                       HalfCost(tower) + (HalfCost(tower) * (tower.level - 1) * 3) \div 4
               IN state'.currency - state.currency
                    - waveNumber * 20 - calculateWaveBonus(waveNumber).currency
                  = SumSeq([i \in DOMAIN towers |->
                              IF towers[i].id \in incorrectTowers
                              THEN ClaimedRefund(towers[i]) ELSE 0])]_vars
    /\ \A type \in DOMAIN towerTypes :
          towerTypes[type].cost = 30
             => LET HalfCost == towerTypes[type].cost \div 2
                IN HalfCost + (HalfCost * (1 - 1) * 3) \div 4 = 15

(* the sweep at the end of a wave has removed two towers and refunded   *)
(* them                                                                 *)
C19_Witness ==
    /\ last.op = "update"
    /\ HasEvent(out, "wave:complete")
    /\ Cardinality(EventsNamed(out, "tower:removed")) = 2
    /\ \E i \in EventsNamed(out, "status:message") : out[i].data = "refund"

(* C20: once the board has been initialised with difficulty easy,      *)
(* medium or hard, the fixed mask marks exactly 40, 30 or 25 cells.     *)
C20_FixedCountByDifficulty ==
    isInitialized
       => Cardinality({c \in Cell : fixedCells[c]})
            = CASE difficulty = "easy" -> 40
                [] difficulty = "medium" -> 30
                [] OTHER -> 25

(* C21: once SudokuBoard.init has run, every cell of the board's path   *)
(* set holds 0 and is not fixed, and every fixed cell holds the         *)
(* solution's value for that cell.                                      *)
C21_PathBlankFixedSolved ==
    last.op = "init"
       => /\ \A c \in Range(pathCells) : board[c] = 0 /\ ~fixedCells[c]
          /\ \A c \in Cell : fixedCells[c] => board[c] = solution[c]

(* ------------------------------------------------------------------ *)
(* SudokuGenerator.generateEnemyPath on its own: the start row, the    *)
(* end row and the draws that choose the moves range over PathSeeds    *)
MaxDraws == 3

PathSeeds ==
    {[startRow |-> startRow, endRow |-> endRow, draws |-> draws] :
        startRow \in Idx, endRow \in Idx,
        draws \in UNION {[1 .. n -> {0, 3, RandDen - 1}] : n \in 1 .. MaxDraws}}

(* a call of generateEnemyPath on the loaded module; ret holds the      *)
(* returned set in insertion order                                      *)
GeneratePath(seed) ==
    /\ last.op = "load"
    /\ UNCHANGED <<solver, isInitialized>>
    /\ Apply([World EXCEPT !.ret = generateEnemyPath(seed)],
             Op("generateEnemyPath", seed.draws, seed.startRow, seed.endRow))

SpecPath == Init /\ [][\E seed \in PathSeeds : GeneratePath(seed)]_vars

(* C22: the set generateEnemyPath returns, read in insertion order, is  *)
(* a chain of pairwise distinct in-bounds cells that starts in column 0 *)
(* and ends in column 8, each cell one unit step up, down or right of   *)
(* the cell before it; the construction ends, having added no cell      *)
(* twice, after at most 81 cells.                                       *)
C22_PathIsChain ==
    last.op = "generateEnemyPath"
       => /\ Len(ret) >= 1 /\ Len(ret) <= N * N
          /\ \A i \in DOMAIN ret : ret[i] \in Cell
          /\ \A i, j \in DOMAIN ret : i # j => ret[i] # ret[j]
          /\ ret[1][2] = 0
          /\ ret[Len(ret)][2] = N - 1
          /\ \A i \in 1 .. (Len(ret) - 1) :
                <<ret[i + 1][1] - ret[i][1], ret[i + 1][2] - ret[i][2]>>
                    \in {<<-1, 0>>, <<1, 0>>, <<0, 1>>}

(* a path that has moved up, down and right on its way to column 8 and  *)
(* then run along column 8 to its end row                               *)
C22_Witness ==
    /\ last.op = "generateEnemyPath"
    /\ \E i, j \in 1 .. (Len(ret) - 1) :
          /\ ret[i + 1][1] = ret[i][1] - 1 /\ ret[i][2] < N - 1
          /\ ret[j + 1][1] = ret[j][1] + 1 /\ ret[j][2] < N - 1
    /\ ret[Len(ret)][2] = N - 1 /\ ret[Len(ret) - 1][2] = N - 1
    /\ ret[Len(ret)][1] = last.col

(* ------------------------------------------------------------------ *)
(* SudokuGenerator.generateCompleteSolution on its own: the three       *)
(* shuffles of 1..9 range over rotations of 1..9 by up to MaxShift and  *)
(* their reversals                                                      *)
MaxShift == 1

DiagDraws ==
    LET Rotated(k) == [i \in 1 .. 9 |-> ((i - 1 + k) % 9) + 1]
        perms == {Rotated(k) : k \in 0 .. MaxShift}
                    \cup {[i \in 1 .. 9 |-> Rotated(k)[10 - i]] : k \in 0 .. MaxShift}
    IN [1 .. Box -> perms]

(* generateCompleteSolution up to its call of solveSudoku, on the       *)
(* loaded module: the diagonal boxes hold the shuffled nums             *)
GenerateCompleteSolution(nums) ==
    /\ ~isInitialized
    /\ solver.mode = "call" /\ solver.stack = <<>>
    /\ solver' = [grid |-> fillDiagonal(nums), stack |-> <<>>, mode |-> "call"]
    /\ last' = Op("generateCompleteSolution", "", 0, 0)
    /\ UNCHANGED <<board, solution, fixedCells, pathCells, difficulty,
                   completedRows, completedColumns, completedGrids,
                   rowBonuses, columnBonuses, gridBonuses, modal,
                   towers, towerId, incorrectTowers, state, path,
                   enemies, enemyId, waveNumber, isWaveActive, spawnInterval,
                   enemiesRemaining, pathTimers, isRunning, isPaused, frames,
                   isInitialized, checked, episode, out, ret>>

NextSolve ==
    \/ \E nums \in DiagDraws : GenerateCompleteSolution(nums)
    \/ SolveStep

SpecSolve == Init /\ [][NextSolve]_vars

(* C23: solveSudoku never gives up on a grid whose diagonal boxes hold  *)
(* permutations of 1..9, and the grid generateCompleteSolution returns  *)
(* has no cell 0 and holds each of 1..9 exactly once in every row,      *)
(* column and 3x3 box.                                                  *)
C23_SolutionComplete ==
    /\ solver.mode # "unsolved"
    /\ solver.mode = "solved"
          => /\ \A c \in Cell : solver.grid[c] \in Digits
             /\ \A unit \in Units : {solver.grid[c] : c \in unit} = Digits

(* a solution has been found from diagonal boxes that hold a reversed   *)
(* and a rotated permutation                                            *)
C23_Witness ==
    /\ solver.mode = "solved"
    /\ solver.grid[<<0, 0>>] = 9
    /\ solver.grid[<<3, 3>>] = 2

(* C24: while a unit that has been signalled complete has no bonus      *)
(* chosen for it yet, no frame of the game loop runs update.            *)
C24_PausedWhilePending ==
    [][(\E u \in UnitKeys :
           /\ episode[u] >= 1
           /\ u \notin DOMAIN (CASE u[1] = "row" -> rowBonuses
                                 [] u[1] = "column" -> columnBonuses
                                 [] OTHER -> gridBonuses))
          => last'.op # "update"]_vars

(* C25: from pause() to the matching resume() no frame runs update and  *)
(* no enemy is created or added to the enemies array.                   *)
C25_PausedNoTickNoSpawn ==
    [][(isPaused /\ isPaused')
          => /\ last'.op # "update"
             /\ enemyId' = enemyId
             /\ Len(enemies') <= Len(enemies)]_vars

(* ------------------------------------------------------------------ *)
(* GameLoop.reset: stop, the modules' resets, then init once more,      *)
(* whose GAME_INIT and GAME_START reach every module's init or reset.   *)
(* The board is drawn anew at each of them; the last draw stays. The    *)
(* bonus modal and the pending path timers are left as they are.        *)
(* ------------------------------------------------------------------ *)
resetKeepBonuses(w, generated, boardSeed) ==
    LET emptied == [w EXCEPT !.isRunning = FALSE, !.isPaused = FALSE,
                             !.state = [currency |-> StartCurrency,
                                        lives |-> StartLives, score |-> 0],
                             !.towers = <<>>, !.towerId = 0, !.incorrectTowers = {},
                             !.enemies = <<>>, !.enemyId = 0, !.waveNumber = 1,
                             !.isWaveActive = FALSE, !.enemiesRemaining = 0,
                             !.spawnInterval = NoInterval,
                             !.completedRows = {}, !.completedColumns = {},
                             !.completedGrids = {},
                             !.difficulty = "medium",
                             !.board = generated.board,
                             !.solution = generated.solution,
                             !.fixedCells = generated.fixedCells,
                             !.pathCells = generateEnemyPath(boardSeed),
                             !.checked = FALSE]
    IN StatusMessage(requestAnimationFrame(
                         Emit([emptied EXCEPT !.isRunning = TRUE, !.path = emptied.pathCells],
                              "game:start", Null)),
                     "New game started!")

reset(w, generated, boardSeed) ==
    LET stop(v) == [v EXCEPT !.isRunning = FALSE, !.isPaused = FALSE]
        playerReset(v) ==
            [v EXCEPT !.state = [currency |-> StartCurrency, lives |-> StartLives, score |-> 0]]
        completionReset(v) ==
            [v EXCEPT !.completedRows = {}, !.completedColumns = {}, !.completedGrids = {}]
        boardInit(v, options) ==
            LET drawn == [v EXCEPT !.difficulty = options,
                                   !.board = generated.board,
                                   !.solution = generated.solution,
                                   !.fixedCells = generated.fixedCells,
                                   !.pathCells = generateEnemyPath(boardSeed),
                                   !.checked = FALSE]
            IN setPath(completionReset(Emit(drawn, "sudoku:generated", Null)),
                       generateEnemyPath(boardSeed))
        wavesInit(v) ==
            [v EXCEPT !.enemies = <<>>, !.enemyId = 0, !.waveNumber = 1,
                      !.isWaveActive = FALSE, !.enemiesRemaining = 0,
                      !.spawnInterval = NoInterval]
        placementInit(v) ==
            [v EXCEPT !.towers = <<>>, !.towerId = 0, !.incorrectTowers = {}]
        clearBonuses(v) ==
            [v EXCEPT !.rowBonuses = NoBonuses, !.columnBonuses = NoBonuses,
                      !.gridBonuses = NoBonuses]
        gameInit(v) ==
            wavesInit(placementInit(completionReset(boardInit(
                clearBonuses(playerReset(Emit(v, "game:init", Null))), "medium"))))
        gameStart(v) ==
            requestAnimationFrame(wavesInit(placementInit(completionReset(boardInit(
                playerReset(Emit([v EXCEPT !.isRunning = TRUE, !.isPaused = FALSE],
                                 "game:start", Null)), "medium")))))
        explicit == placementInit(boardInit(playerReset(stop(w)), w.difficulty))
    IN StatusMessage(gameStart(gameInit(explicit)), "New game started!")

(* the new-game button, or the button of the game-over modal *)
Reset(boardSeed) ==
    /\ isInitialized
    /\ UNCHANGED <<solver, isInitialized>>
    /\ Apply(reset(World, generatePuzzle("medium", PuzzlePathSeed, solver.grid, Positions),
                   boardSeed),
             Op("reset",
                IF rowBonuses = NoBonuses /\ columnBonuses = NoBonuses /\ gridBonuses = NoBonuses
                    THEN "" ELSE "bound",
                Len(towers), Len(enemies)))

(* a game with a bonus, a wave and its enemies, and new games begun at  *)
(* any moment of it                                                     *)
NextSession ==
    \/ NextBonus
    \/ \E boardSeed \in BonusPathSeeds : Reset(boardSeed)

SpecSession == Init /\ [][NextSession]_vars

(* C26: when GameLoop.reset returns there are no towers and no          *)
(* incorrect-tower ids, no live enemies, no active wave, the wave       *)
(* number is 1, the spawn interval is cancelled, CompletionStatus is    *)
(* empty, no unit holds a bonus, and the player has the starting score, *)
(* lives and currency                                                   *)
C26_ResetRestoresInitialState ==
    last.op = "reset"
       => /\ towers = <<>> /\ incorrectTowers = {}
          /\ enemies = <<>> /\ ~isWaveActive /\ waveNumber = 1
          /\ ~spawnInterval.on
          /\ completedRows = {} /\ completedColumns = {} /\ completedGrids = {}
          /\ DOMAIN rowBonuses = {} /\ DOMAIN columnBonuses = {} /\ DOMAIN gridBonuses = {}
          /\ state = [currency |-> StartCurrency, lives |-> StartLives, score |-> 0]

(* a new game begun while a tower stood in a row holding a bonus and an *)
(* enemy of the wave was on the path                                    *)
C26_Witness ==
    /\ last.op = "reset"
    /\ last.kind = "bound" /\ last.row > 0 /\ last.col > 0

(* C27: lives never fall below 0, one handler signals game over at most *)
(* once, and once lives are 0 no later step before the next reset       *)
(* signals game over again, however many enemies reach the path end     *)
C27_GameOverIsTerminal ==
    /\ [](state.lives >= 0 /\ Cardinality(EventsNamed(out, "game:over")) <= 1)
    /\ [][(state.lives <= 0 /\ last'.op # "reset") => ~HasEvent(out', "game:over")]_vars

(* the pause button while the game is paused *)
Resume ==
    /\ isInitialized
    /\ UNCHANGED <<solver, isInitialized>>
    /\ isPaused
    /\ Apply(resume(World), Op("resume", "", 0, 0))

(* waves whose enemies were spawned while the loop was paused, and the  *)
(* frames after the player resumes                                      *)
NextOverrun ==
    \/ SolveStep
    \/ \E boardSeed \in BoardPathSeeds : GameInit(boardSeed)
    \/ Pause
    \/ Resume
    \/ StartWave
    \/ \E deltaTime \in DeltaTimes : Elapse(deltaTime)
    \/ SpawnTimer(0)
    \/ \E deltaTime \in DeltaTimes : Tick(deltaTime)

SpecOverrun == Init /\ [][NextOverrun]_vars

(* ------------------------------------------------------------------ *)
(* applyEffects on its own: a tower at (3,4), an enemy of wave          *)
(* TargetWave, and for each of the tower's row, column and grid either   *)
(* no bonus or one of the three; row 4, column 3 and grid 0-1, which    *)
(* are not the tower's, hold bonuses too                                *)
(* ------------------------------------------------------------------ *)
InitEffects ==
    \E type \in TargetTowerKinds :
        \E kind \in TargetEnemyKinds :
            \E choice \in [{"row", "column", "grid"} -> BonusTypes \cup {"none"}] :
                LET bind(w, unitType, unitIndex) ==
                        IF choice[unitType] = "none" THEN w
                        ELSE applyBonus(w, unitType, unitIndex, choice[unitType])
                    others == applyBonus(applyBonus(applyBonus(
                                  TargetWorld(type, <<kind>>, <<2>>),
                                  "row", <<"4">>, "CURRENCY"),
                                  "column", <<"3">>, "DAMAGE"),
                                  "grid", <<"0", "1">>, "POINTS")
                IN Setup(bind(bind(bind(others, "row", <<"3">>), "column", <<"4">>),
                              "grid", <<"1", "1">>))

(* attackEnemy's call of applyEffects for the tower and the enemy *)
ApplyEffects ==
    /\ last.op = "load"
    /\ UNCHANGED <<solver, isInitialized>>
    /\ Apply([World EXCEPT !.ret = applyEffects(World, towers[1], enemies[1],
                                                enemies[1].points, enemies[1].reward)],
             Op("applyEffects", enemies[1].type, enemies[1].points, enemies[1].reward))

SpecEffects == InitEffects /\ [][ApplyEffects]_vars

(* C28: applyEffects returns damage floor(tower.damage * 1.35^d),       *)
(* points floor(basePoints * 2.0^p) and currency                        *)
(* floor(baseCurrency * 1.75^c), where d, p and c count those of the    *)
(* tower's row, column and box that hold an active DAMAGE, POINTS and   *)
(* CURRENCY bonus                                                       *)
C28_EffectsAreStackedProducts ==
    last.op = "applyEffects"
       => LET tower == towers[1]
              has(bonuses, key, t) == IF key \in DOMAIN bonuses /\ bonuses[key] = t THEN 1 ELSE 0
              count(t) ==
                  has(rowBonuses, <<"row", ToStr(tower.row)>>, t)
                    + has(columnBonuses, <<"column", ToStr(tower.col)>>, t)
                    + has(gridBonuses,
                          <<"grid", ToStr(tower.row \div 3), ToStr(tower.col \div 3)>>, t)
          IN /\ ret.damage = (tower.damage * 135 ^ count("DAMAGE")) \div 100 ^ count("DAMAGE")
             /\ ret.points = (last.row * 2 ^ count("POINTS"))
             /\ ret.currency
                   = (last.col * 175 ^ count("CURRENCY")) \div 100 ^ count("CURRENCY")

(* the row, the column and the box of the tower of kind 1 all hold a    *)
(* DAMAGE bonus: 60 * 1.35^3 = 147.6                                    *)
C28_Witness ==
    /\ last.op = "applyEffects"
    /\ towers[1].type = "1"
    /\ <<"row", "3">> \in DOMAIN rowBonuses /\ rowBonuses[<<"row", "3">>] = "DAMAGE"
    /\ <<"column", "4">> \in DOMAIN columnBonuses /\ columnBonuses[<<"column", "4">>] = "DAMAGE"
    /\ <<"grid", "1", "1">> \in DOMAIN gridBonuses /\ gridBonuses[<<"grid", "1", "1">>] = "DAMAGE"
    /\ ret.damage = 147

(* C29: upgradeTower(id) of a tower with currency below                *)
(* floor(baseCost * 0.75 * level) leaves the currency and the towers    *)
(* as they are; otherwise it takes exactly that cost from the currency, *)
(* raises the tower's level by 1, makes its damage floor(damage * 1.8)  *)
(* and its attack period 0.7 of what it was, and leaves the other       *)
(* towers alone                                                         *)
C29_UpgradeCostsAndRaises ==
    [][last'.op = "upgradeTower"
          => LET i == CHOOSE j \in DOMAIN towers : towers[j].id = last'.row
                 tower == towers[i]
                 cost == (towerTypes[tower.type].cost * 75 * tower.level) \div 100
             IN IF state.currency < cost
                THEN state' = state /\ towers' = towers /\ ret' = "false"
                ELSE /\ state' = [state EXCEPT !.currency = @ - cost]
                     /\ ret' = "true"
                     /\ DOMAIN towers' = DOMAIN towers
                     /\ \A j \in DOMAIN towers : j # i => towers'[j] = towers[j]
                     /\ towers'[i].level = tower.level + 1
                     /\ towers'[i].damage = (tower.damage * 18) \div 10
                     /\ towers'[i].attackSpeed * 10 = tower.attackSpeed * 7
                     /\ towers'[i].id = tower.id /\ towers'[i].type = tower.type
                     /\ towers'[i].row = tower.row /\ towers'[i].col = tower.col]_vars

(* a tower of kind 1 upgraded to level 2 for 22 of the 120 the player   *)
(* had left after buying it                                             *)
C29_Witness ==
    /\ last.op = "upgradeTower" /\ ret = "true"
    /\ \E i \in DOMAIN towers :
          /\ towers[i].id = last.row /\ towers[i].type = "1"
          /\ towers[i].level = 2 /\ towers[i].damage = 108 /\ towers[i].attackSpeed = 49000
    /\ state.currency = 98

(* GameLoop.update on the towers and enemies of wave TargetWave, whose  *)
(* enemies outlast one hit                                              *)
UpdateCall(deltaTime) ==
    /\ UNCHANGED <<solver, isInitialized>>
    /\ Apply(update(World, deltaTime), Op("update", "", deltaTime, lastUpdateTime(last)))

SpecFight == InitTarget /\ [][\E deltaTime \in DeltaTimes : UpdateCall(deltaTime)]_vars

(* C30: every enemy in the enemies array is active and has health above *)
(* 0, and an enemy that a step reports as defeated or as having reached *)
(* the path end is no longer in the array when that step ends           *)
C30_LiveEnemiesActive ==
    /\ [](\A i \in DOMAIN enemies : enemies[i].active /\ enemies[i].health > 0)
    /\ [][\A k \in DOMAIN out' :
             /\ out'[k].name = "enemy:defeated"
                   => \A i \in DOMAIN enemies' : enemies'[i].id # out'[k].data[1]
             /\ out'[k].name = "enemy:reached:end"
                   => \A i \in DOMAIN enemies' : enemies'[i].id # out'[k].data]_vars

(* a frame in which one enemy is defeated or reaches the path end      *)
(* while a damaged one stays on the path                                *)
C30_Witness ==
    /\ last.op = "update"
    /\ HasEvent(out, "enemy:defeated") \/ HasEvent(out, "enemy:reached:end")
    /\ \E i \in DOMAIN enemies : enemies[i].health < enemies[i].maxHealth

(* C31: in every reachable state no two towers stand on the same board  *)
(* cell, and the ids of the towers are pairwise distinct                *)
C31_OneTowerPerCell ==
    \A i, j \in DOMAIN towers :
        i # j => /\ <<towers[i].row, towers[i].col>> # <<towers[j].row, towers[j].col>>
                 /\ towers[i].id # towers[j].id

(* createTower on the cell of a standing tower was turned down while    *)
(* two towers stand on the board                                        *)
C31_Witness ==
    /\ last.op = "createTower" /\ ret = Null
    /\ Len(towers) = 2
    /\ \E i \in DOMAIN towers : towers[i].row = last.row /\ towers[i].col = last.col

(* ------------------------------------------------------------------ *)
(* SudokuValidator.isValidMove on a complete solution with one cell     *)
(* cleared; the board passed to it is kept in board                     *)
(* ------------------------------------------------------------------ *)
IsValidMoveCall(row, col, value) ==
    /\ ~isInitialized
    /\ solver.mode = "solved"
    /\ last.op = "generateCompleteSolution"
    /\ UNCHANGED <<solver, isInitialized>>
    /\ Apply([World EXCEPT !.board = [solver.grid EXCEPT ![<<row, col>>] = 0],
                           !.ret = IF isValidMove([solver.grid EXCEPT ![<<row, col>>] = 0],
                                                  row, col, value)
                                   THEN "true" ELSE "false"],
             Op("isValidMove", ToStr(value), row, col))

SpecValid ==
    Init /\ [][\/ NextSolve
               \/ \E row \in Idx : \E col \in Idx : \E value \in Digits :
                     IsValidMoveCall(row, col, value)]_vars

(* C32: on a complete valid solution with the cell (r,c) cleared,      *)
(* isValidMove(board, r, c, v) is true for the solution's value of the  *)
(* cell and false for every other v in 1..9, and the board is the same  *)
(* after the call                                                       *)
C32_OnlySolutionValueValid ==
    last.op = "isValidMove"
       => /\ ret = IF ParseInt(last.kind) = solver.grid[<<last.row, last.col>>]
                   THEN "true" ELSE "false"
          /\ board = [solver.grid EXCEPT ![<<last.row, last.col>>] = 0]

(* the value of the solution is accepted in the middle box *)
C32_Witness ==
    /\ last.op = "isValidMove" /\ ret = "true"
    /\ last.row = 4 /\ last.col = 3
    /\ ParseInt(last.kind) = solver.grid[<<4, 3>>]

(* C33: when one board mutation completes two units at once, each of   *)
(* them is pending and gets the bonus the player chooses for it: once   *)
(* the player's choice has closed the modal, every unit that was        *)
(* signalled complete, and still is complete, holds a bonus binding     *)
C33_EachUnitGetsItsBonus ==
    [][(last'.op = "chooseBonus" /\ ~modal'.active)
          => \A u \in UnitKeys :
                episode'[u] >= 1
                   => u \in DOMAIN (CASE u[1] = "row" -> rowBonuses'
                                      [] u[1] = "column" -> columnBonuses'
                                      [] OTHER -> gridBonuses')]_vars

(* C34: the enemy path is replaced only by the start of a game or while *)
(* no wave is active: the path regeneration that waveComplete delays    *)
(* takes no effect once startWave has activated the next wave           *)
C34_PathKeptDuringWave ==
    [][path' # path => (last'.op \in {"init", "reset"} \/ ~isWaveActive)]_vars

(***************************************************************************)
(* C35: in every state between operations of an initialized game, the set  *)
(* of cells the board reports as path cells (SudokuBoard pathCells) equals *)
(* the set of cells of the path enemies walk (EnemyMovement path), also    *)
(* after a between-wave path regeneration.                                 *)
(***************************************************************************)
C35_BoardPathIsWalkedPath ==
    isInitialized => Range(pathCells) = Range(path)

(***************************************************************************)
(* C36: every update reduces by deltaTime the remaining cooldown of every  *)
(* tower that is still on cooldown, whether or not an enemy is alive in    *)
(* that frame (the tower then holds the reduced cooldown, or its attack    *)
(* period when it has attacked in the frame), and a tower whose cooldown   *)
(* has not run out within the frame does not attack in it.                 *)
(***************************************************************************)
C36_CooldownRunsEveryTick ==
    [][last'.op = "update"
          => \A i \in DOMAIN towers : \A j \in DOMAIN towers' :
                (towers[i].attackCooldown > 0 /\ towers'[j].id = towers[i].id)
                   => LET attacked == \E e \in EventsNamed(out', "tower:attack") :
                                         out'[e].data[1] = towers[i].id
                      IN /\ towers'[j].attackCooldown
                               = IF attacked THEN towers[i].attackSpeed
                                 ELSE towers[i].attackCooldown - CooldownUnits(last'.row)
                         /\ towers[i].attackCooldown > CooldownUnits(last'.row)
                               => ~attacked]_vars

(* ------------------------------------------------------------------ *)
(* The loop on its own: the pause button, new games and the frame      *)
(* callbacks, with a wave to update                                    *)
(* ------------------------------------------------------------------ *)
SpecLoop ==
    Init /\ [][\/ SolveStep
               \/ \E boardSeed \in BoardPathSeeds : GameInit(boardSeed)
               \/ Pause
               \/ Resume
               \/ \E boardSeed \in BoardPathSeeds : Reset(boardSeed)
               \/ StartWave
               \/ \E deltaTime \in DeltaTimes : Tick(deltaTime)
               \/ IdleFrame]_vars

(***************************************************************************)
(* C37: at any time at most one frame callback of the game loop is         *)
(* pending, whatever sequence of init, pause, resume and reset was run.    *)
(***************************************************************************)
C37_OneFramePending == frames <= 1

(***************************************************************************)
(* C38: within one update no enemy is defeated twice: for every            *)
(* enemy-defeated event of the frame no later event damages or defeats the *)
(* same enemy (damageEnemy on an enemy that has left the live set changes  *)
(* nothing and reports no kill, so a later tower attack on it reports no   *)
(* points and no currency), and the frame credits the rewards and points   *)
(* of its enemy-defeated events once each and takes each of them once      *)
(* from the remaining counter.                                             *)
(***************************************************************************)
C38_DefeatedOnce ==
    [][(last'.op = "update" /\ ~HasEvent(out', "wave:complete"))
          => LET isDefeat(e) == e.name = "enemy:defeated"
                 isEnd(e) == e.name = "enemy:reached:end"
                 defeats == SelectSeq(out', isDefeat)
                 Credited(field) ==
                     SumSeq([i \in DOMAIN defeats |-> defeats[i].data[field]])
                 kills(id) == {k \in EventsNamed(out', "tower:attack") :
                                  /\ out'[k].data[2] = id
                                  /\ out'[k].data[4] # 0 \/ out'[k].data[5] # 0}
             IN /\ \A d \in EventsNamed(out', "enemy:defeated") :
                      /\ \A k \in EventsNamed(out', "enemy:damage")
                                  \cup EventsNamed(out', "enemy:defeated") :
                            k > d => out'[k].data[1] # out'[d].data[1]
                      /\ Cardinality(kills(out'[d].data[1])) = 1
                /\ state'.currency - state.currency = Credited(2)
                /\ state'.score - state.score = Credited(3)
                /\ enemiesRemaining - enemiesRemaining'
                      = Len(defeats) + Len(SelectSeq(out', isEnd))]_vars

(* two towers selected the same enemy in one frame: the first killed it, *)
(* the second attacked it after its defeat                               *)
C38_Witness ==
    /\ last.op = "update"
    /\ \E d \in EventsNamed(out, "enemy:defeated") :
          \E k1, k2 \in EventsNamed(out, "tower:attack") :
             /\ d < k1 /\ k1 < k2
             /\ out[k1].data[2] = out[d].data[1]
             /\ out[k2].data[2] = out[d].data[1]

(* ------------------------------------------------------------------ *)
(* Waves under a player who also pauses and resumes: a frame runs      *)
(* again and again whenever the loop is again and again running        *)
(* unpaused (strong fairness of Tick), and a due spawn callback runs   *)
(* (weak fairness of SpawnTimer)                                       *)
(* ------------------------------------------------------------------ *)
LivePausedSpec ==
    /\ Init
    /\ [][\/ SolveStep
          \/ \E boardSeed \in BoardPathSeeds : GameInit(boardSeed)
          \/ \E play \in WavePlays : CreateTower(play[1], play[2], play[3])
          \/ StartWave
          \/ Pause
          \/ Resume
          \/ \E deltaTime \in DeltaTimes : Elapse(deltaTime)
          \/ SpawnTimer(0)
          \/ \E deltaTime \in DeltaTimes : Tick(deltaTime)]_vars
    /\ SF_last(Frame)
    /\ WF_last(SpawnCall)

====
